---- MODULE Spec2Model ----
(***************************************************************************)
(* Model of the assistant stack of the predictive-maintenance dashboard:   *)
(*   - UnifiedAssistant (utils/unified_assistant.py): backend routing and  *)
(*     fallback,                                                           *)
(*   - SnowflakeIntelligenceAgent (utils/snowflake_intelligence.py):       *)
(*     thread bookkeeping, request-shape probing, SSE parsing,             *)
(*   - SnowflakeCortexAnalyst (utils/cortex_analyst.py): role alternation  *)
(*     and response handling,                                              *)
(*   - ConversationManager (utils/conversation_manager.py): context window.*)
(*                                                                         *)
(* Texts are sequences of tokens; string concatenation is \o.  Python's    *)
(* None is the one-token sequence None, so that every text slot has one    *)
(* type.  Truthy(x) is Python's truth test on an Optional[str].            *)
(***************************************************************************)
EXTENDS Integers, Sequences, FiniteSets, TLC

VARIABLES
    \* ---- UnifiedAssistant / SnowflakeIntelligenceAgent / Cortex client ----
    secrets,              \* the hosting environment's secret store
    use_intelligence,     \* UnifiedAssistant.use_intelligence
    fallback_to_cortex,   \* UnifiedAssistant.fallback_to_cortex
    intelligence_client,  \* module global _intelligence_client is set
    cortex_client,        \* module global _cortex_client is set
    thread_id,            \* SnowflakeIntelligenceAgent._thread_id
    threadCalls,          \* POSTs made to /api/v2/cortex/threads so far
    uuidCount,            \* uuid.uuid4() values generated so far
    sentThreadIds,        \* thread ids carried by ':run' request bodies so far
    pc,                   \* position of the router inside the current turn
    messages,             \* messages argument of the current turn
    request_variations,   \* the four request bodies of the current turn
    attempts,             \* ':run' requests issued in the current turn
    error,                \* local 'error' of get_agent_response
    agentRet,             \* what get_agent_response returned this turn
    intelFailure,         \* failure text of the Intelligence call of the turn
    intelRaised,          \* the Intelligence call of the turn raised
    cortexRet,            \* what the Cortex client returned / raised this turn
    events,               \* order of backend calls of the current turn
    result,               \* what UnifiedAssistant.get_complete_response gave
    turns,                \* turns started so far
    \* ---- _parse_streaming_response ----
    s_lines,              \* lines of the SSE body
    s_pos,                \* lines consumed so far
    content_parts,
    thinking_content,
    final_response,
    status,
    tools_executed,
    s_result,             \* the parsed dict's message.content, once returned
    \* ---- _ensure_alternating_roles ----
    r_messages,           \* argument
    r_pos,                \* messages consumed by the loop so far
    filtered,
    last_role,
    r_pc,                 \* "loop", then "returned"
    r_result,             \* return value, once returned
    \* ---- manage_context_window ----
    w_messages,           \* argument
    max_messages,
    max_tokens,
    w_pc,                 \* "call", then "returned"
    w_result,             \* return value, once returned
    \* ---- ConversationManager storage ----
    storage_backend,      \* ConversationManager.storage_backend
    conversations,        \* st.session_state["conversations"]
    user_id_memo,         \* "user_id" is in st.session_state
    table,                \* rows of HYPERFORGE.ANALYTICS.CONVERSATION_HISTORY
    query_cache,          \* st.cache_data entries of run_query, per SELECT text
    next_message,         \* messages built by save_message so far
    op,                   \* the last step and what it gave
    \* ---- get_pat_token ----
    environ,              \* os.environ, the variables get_pat_token reads
    connection_name,      \* argument
    files,                \* the files the two token paths name
    snowflake_secrets,    \* st.secrets, the "snowflake" block
    pat_pc,               \* "call", then "returned"
    pat_result,           \* the token returned, or the error raised
    \* ---- IntelligenceToolExecutor.execute_tool ----
    tool_call,            \* argument
    tool_data,            \* whether the warehouse answers the tool's queries
    tool_pc,              \* "call", then "returned"
    tool_result,          \* the string returned, or the error raised
    \* ---- run_queries_parallel ----
    queries,              \* number of entries of the queries mapping; name k is
                          \* its k-th key
    max_workers,          \* argument
    return_empty_on_error,\* argument
    running_attr,         \* st._is_running_with_streamlit: absent, true or false
    future,               \* state of each submitted future
    results,              \* local 'results'
    errors,               \* keys of local 'errors'
    par_pc,               \* position of the calling thread
    par_exc,              \* exception propagating out of the call, if any
    \* ---- build_unified_widget ----
    page,                 \* the page the widget is rendered for (page_context)
    widget_messages,      \* st.session_state[messages_key]
    confirm_clear,        \* st.session_state["confirm_clear"]: absent, false, true
    pending_question,     \* st.session_state["pending_question"]
    widget_turns,         \* prompts processed so far
    \* ---- calculate_oee ----
    df_prod,              \* argument: the rows of the production table
    oee_pc,               \* "call", then "returned"
    oee_result,           \* the tuple returned
    \* ---- SnowflakeCortexAnalyst.get_complete_response ----
    analyst_messages,     \* argument 'messages'
    analyst_request,      \* 'messages' of the request body
    analyst_reply,        \* what the endpoint and the SQL execution gave
    analyst_pc,           \* "call", "requested", then "returned"
    analyst_result        \* what the call returned or raised

routerVars == <<secrets, use_intelligence, fallback_to_cortex, intelligence_client,
                cortex_client, thread_id, threadCalls, uuidCount, sentThreadIds, pc,
                messages, request_variations, attempts, error, agentRet, intelFailure,
                intelRaised, cortexRet, events, result, turns>>
streamVars == <<s_lines, s_pos, content_parts, thinking_content, final_response,
                status, tools_executed, s_result>>
rolesVars == <<r_messages, r_pos, filtered, last_role, r_pc, r_result>>
windowVars == <<w_messages, max_messages, max_tokens, w_pc, w_result>>
storeVars == <<storage_backend, conversations, user_id_memo, table, query_cache,
               next_message, op>>
tokenVars == <<environ, connection_name, files, snowflake_secrets, pat_pc, pat_result>>
coreVars == <<routerVars, streamVars, rolesVars, windowVars>>
toolVars == <<tool_call, tool_data, tool_pc, tool_result>>
parVars == <<queries, max_workers, return_empty_on_error, running_attr, future, results,
             errors, par_pc, par_exc>>
widgetVars == <<page, widget_messages, confirm_clear, pending_question, widget_turns>>
oeeVars == <<df_prod, oee_pc, oee_result>>
analystVars == <<analyst_messages, analyst_request, analyst_reply, analyst_pc,
                 analyst_result>>
laterVars == <<storeVars, tokenVars, toolVars, parVars, widgetVars, oeeVars, analystVars>>
notOeeVars == <<coreVars, storeVars, tokenVars, toolVars, parVars, widgetVars, analystVars>>
notAnalystVars == <<coreVars, storeVars, tokenVars, toolVars, parVars, widgetVars, oeeVars>>
notStoreVars == <<coreVars, tokenVars, toolVars, parVars, widgetVars, oeeVars, analystVars>>
notTokenVars == <<coreVars, storeVars, toolVars, parVars, widgetVars, oeeVars, analystVars>>
notToolVars == <<coreVars, storeVars, tokenVars, parVars, widgetVars, oeeVars, analystVars>>
notParVars == <<coreVars, storeVars, tokenVars, toolVars, widgetVars, oeeVars, analystVars>>
\* The widget saves through the session-backed ConversationManager, so it
\* shares conversations, next_message and op with the storage model.
notWidgetVars == <<coreVars, storage_backend, user_id_memo, table, query_cache,
                   tokenVars, toolVars, parVars, oeeVars, analystVars>>
vars == <<routerVars, streamVars, rolesVars, windowVars, laterVars>>

----------------------------------------------------------------------------
(* Bounds of the model *)

MaxTurns == 2
MaxLines == 3
MaxRoleMessages == 5
MaxWindowMessages == 4
MaxContentLen == 2
MaxMaxMessages == 3
MaxMaxTokens == 2

----------------------------------------------------------------------------
(* Python values *)

None == <<"None">>
NoContent == << <<"None">> >>
Truthy(x) == x # None /\ x # <<>>
NotYet == <<"not returned">>

RECURSIVE Contains(_, _)
Contains(s, sub) ==
    IF Len(sub) > Len(s) THEN FALSE
    ELSE IF SubSeq(s, 1, Len(sub)) = sub THEN TRUE
    ELSE IF s = <<>> THEN FALSE
    ELSE Contains(Tail(s), sub)

----------------------------------------------------------------------------
(* The secret store and the feature flags (UnifiedAssistant.__init__) *)

FlagValues == {"absent", "true", "false"}

\* st.secrets: unreadable (every access raises), or readable with an optional
\* features block and an optional snowflake block.
SecretStates ==
    {[readable |-> FALSE, use_intelligence |-> "absent",
      fallback_to_cortex |-> "absent", has_snowflake |-> FALSE]}
    \cup [readable : {TRUE}, use_intelligence : FlagValues,
          fallback_to_cortex : FlagValues, has_snowflake : BOOLEAN]

get_feature_flag_always_enabled(s) ==
    IF s.readable /\ s.use_intelligence = "false" THEN FALSE ELSE TRUE

\* try: return st.secrets.get("features", {}).get("use_intelligence", True)
\* except Exception: return False
get_feature_flag(s) ==
    IF ~s.readable THEN FALSE
    ELSE IF s.use_intelligence = "absent" THEN TRUE
    ELSE s.use_intelligence = "true"

\* try: return st.secrets.get("features", {}).get("fallback_to_cortex", True)
\* except Exception: return True
get_fallback_flag(s) ==
    IF ~s.readable THEN TRUE
    ELSE IF s.fallback_to_cortex = "absent" THEN TRUE
    ELSE s.fallback_to_cortex = "true"

----------------------------------------------------------------------------
(* Conversation messages handed to the router *)

Msg(r, c) == [role |-> r, content |-> c]
Welcome == Msg("assistant", <<"welcome">>)

\* The message lists a turn may be started with.
MessageLists ==
    { <<>>,
      <<Welcome>>,
      <<Welcome, Msg("user", <<"q1">>)>>,
      <<Welcome, Msg("user", <<"q1">>), Msg("assistant", <<"a1">>), Msg("user", <<"q2">>)>>,
      <<Welcome, Msg("user", <<"q1">>), Msg("user", <<>>)>> }

\* for msg in reversed(messages): if msg["role"] == "user": ...; break
RECURSIVE latest_user_message(_)
latest_user_message(msgs) ==
    IF msgs = <<>> THEN None
    ELSE IF msgs[Len(msgs)].role = "user" THEN msgs[Len(msgs)].content
    ELSE latest_user_message(SubSeq(msgs, 1, Len(msgs) - 1))

----------------------------------------------------------------------------
(* SnowflakeIntelligenceAgent: thread bookkeeping *)

NoThread == "None"
ServerThreadIds == {"t1", "t2"}
\* What POST /api/v2/cortex/threads can give: a transport/status error, a
\* body without thread_id, or a body with a thread id.
ThreadReplies == {"error", "no_thread_id"} \cup ServerThreadIds

Uuid(n) == "uuid-" \o ToString(n)

\* The agent fields _get_or_create_thread_id reads and writes.
ThreadState(t, c, u) == [thread_id |-> t, threadCalls |-> c, uuidCount |-> u]

get_or_create_thread_id_uncached(st, reply) ==
    IF st.thread_id = NoThread
    THEN IF reply \in ServerThreadIds
         THEN ThreadState(reply, st.threadCalls + 1, st.uuidCount)
         ELSE ThreadState(NoThread, st.threadCalls + 1, st.uuidCount + 1)
    ELSE st

\* if self._thread_id is None: POST; thread_id from the reply, else uuid4()
\* The state after the call; the call returns its thread_id field.
get_or_create_thread_id(st, reply) ==
    IF st.thread_id = NoThread
    THEN IF reply \in ServerThreadIds
         THEN ThreadState(reply, st.threadCalls + 1, st.uuidCount)
         ELSE ThreadState(Uuid(st.uuidCount + 1), st.threadCalls + 1, st.uuidCount + 1)
    ELSE st

\* The value a call of _get_or_create_thread_id returns, given the state
\* before and after it.
ReturnedThreadId(before, after) ==
    IF after.thread_id # NoThread THEN after.thread_id
    ELSE Uuid(after.uuidCount)

Body(fmt, tid, parent, text) ==
    [format |-> fmt, thread_id |-> tid, parent_message_id |-> parent, text |-> text]

\* request_variations of get_agent_response; replies[k] is what the thread
\* endpoint answers if the k-th call of _get_or_create_thread_id reaches it.
BuildVariations(st0, replies, text) ==
    LET st1 == get_or_create_thread_id(st0, replies[1])
        st2 == get_or_create_thread_id(st1, replies[2])
        st3 == get_or_create_thread_id(st2, replies[3])
    IN [state |-> st3,
        bodies |-> << Body("typed", ReturnedThreadId(st0, st1), "0", text),
                      Body("typed", NoThread, "None", text),
                      Body("typed", ReturnedThreadId(st1, st2), "None", text),
                      Body("bare", ReturnedThreadId(st2, st3), "0", text) >>]

----------------------------------------------------------------------------
(* SnowflakeIntelligenceAgent.get_agent_response: the ':run' attempts *)

NumVariations == 4
NumAttempts == 2 * NumVariations

\* The two ways a request fails: an exception inside the request (timeout,
\* connection failure, token lookup) or an HTTP status >= 400.
ErrKinds == {"transport", "status"}
AgentTexts == {<<"answer">>, <<>>}

Resp(shape, text) == [shape |-> shape, text |-> text]
EmptyDict == Resp("other_dict", <<>>)

\* What _parse_streaming_response hands back: always message.content.
StreamingBodies == {Resp("message_content", t) : t \in AgentTexts}
\* What response.json() of a non-streaming request can be.
JsonBodies ==
    {Resp(sh, t) : sh \in {"message_content", "message_str"}, t \in AgentTexts}
    \cup {Resp(sh, <<"answer">>) : sh \in {"content", "response"}}
    \cup {Resp(sh, <<>>) : sh \in {"message_no_content", "message_other",
                                   "other_dict", "non_dict"}}

AttemptModeJsonFirst(i) == IF i % 2 = 1 THEN "json" ELSE "streaming"

\* for each variation: first _make_streaming_api_request, then _make_api_request
AttemptMode(i) == IF i % 2 = 1 THEN "streaming" ELSE "json"
AttemptShape(i) == (i + 1) \div 2

\* _make_streaming_api_request: the error member of its return value
StreamingError(kind) ==
    IF kind = "status" THEN <<"Intelligence Agent API Error - Status">>
    ELSE <<"Intelligence Agent streaming request failed:", kind>>

\* _make_api_request: the error member of its return value
JsonError(kind) ==
    IF kind = "status" THEN <<"Intelligence Agent API Error - Status, Message">>
    ELSE <<"Intelligence Agent request failed:", kind>>

RequestError(mode, kind) ==
    IF mode = "streaming" THEN StreamingError(kind) ELSE JsonError(kind)

\* The outcomes the server and the network can give to attempt i.
AttemptOutcomes(i) ==
    {[ok |-> FALSE, error |-> RequestError(AttemptMode(i), k), response |-> EmptyDict]
        : k \in ErrKinds}
    \cup {[ok |-> TRUE, error |-> None, response |-> b]
        : b \in IF AttemptMode(i) = "streaming" THEN StreamingBodies ELSE JsonBodies}

AllFailedErrorWithoutLast(err) == <<"All request variations failed. Last error:">>

\* return {}, f"All request variations failed. Last error: {error}"
AllFailedError(err) == <<"All request variations failed. Last error:">> \o err

NoUserMessageError == <<"No user message found in conversation">>

AgentReturn(response, err) == [response |-> response, error |-> err]
NoAgentReturn == AgentReturn(EmptyDict, NotYet)

\* SnowflakeIntelligenceAgent.get_complete_response after get_agent_response:
\* a pair (text, error), or None where no branch returns.
AgentCompleteResponse(ret) ==
    IF Truthy(ret.error) THEN [kind |-> "pair", text |-> <<>>, error |-> ret.error]
    ELSE CASE ret.response.shape \in {"message_content", "message_str",
                                      "content", "response"}
                -> [kind |-> "pair", text |-> ret.response.text, error |-> None]
           [] ret.response.shape \in {"message_no_content", "message_other"}
                -> [kind |-> "none", text |-> <<>>, error |-> None]
           [] OTHER
                -> [kind |-> "pair", text |-> <<"str", ret.response.shape>>,
                    error |-> None]

UnpackError == <<"cannot unpack non-iterable NoneType object">>
SecretsKeyError == <<"KeyError: snowflake">>

----------------------------------------------------------------------------
(* SnowflakeCortexAnalyst.get_complete_response *)

TextItem(t) == <<"text", t>>
SqlItem(q) == <<"sql", q>>

\* message.content lists of a successful analyst reply
ContentLists ==
    { <<>>,
      <<TextItem("i1")>>,
      <<TextItem("i1"), SqlItem("s1")>>,
      <<SqlItem("s1"), TextItem("i1"), TextItem("i2"), SqlItem("s2")>> }

\* What the analyst endpoint and the SQL execution can give in one call.
CortexOutcomes ==
    {[kind |-> k, content |-> <<>>, sql |-> "none"]
        : k \in {"transport", "status", "non_message", "malformed"}}
    \cup {[kind |-> "message", content |-> c, sql |-> "none"]
        : c \in {d \in ContentLists : \A j \in 1..Len(d) : d[j][1] # "sql"}}
    \cup {[kind |-> "message", content |-> c, sql |-> q]
        : c \in {d \in ContentLists : \E j \in 1..Len(d) : d[j][1] = "sql"},
          q \in {"rows", "empty", "raises"}}

RECURSIVE TextParts(_)
TextParts(content) ==
    IF content = <<>> THEN <<>>
    ELSE (IF Head(content)[1] = "text" THEN <<Head(content)[2]>> ELSE <<>>)
         \o TextParts(Tail(content))

\* "\n\n".join(text_parts)
RECURSIVE Join(_)
Join(parts) ==
    IF parts = <<>> THEN <<>>
    ELSE IF Len(parts) = 1 THEN <<parts[1]>>
    ELSE <<parts[1], "\n\n">> \o Join(Tail(parts))

\* sql_statement after the loop: the statement of the last sql item
RECURSIVE SqlStatement(_)
SqlStatement(content) ==
    IF content = <<>> THEN "None"
    ELSE IF content[Len(content)][1] = "sql" THEN content[Len(content)][2]
    ELSE SqlStatement(SubSeq(content, 1, Len(content) - 1))

CortexReturn(text, err, api) ==
    [kind |-> "return", response |-> text, error |-> err, api_content |-> api,
     exc |-> None]
CortexRaise(e) ==
    [kind |-> "raise", response |-> <<>>, error |-> None, api_content |-> NoContent,
     exc |-> e]
NoCortexReturn ==
    [kind |-> "none", response |-> <<>>, error |-> None, api_content |-> NoContent,
     exc |-> None]

CortexRequestError(kind) ==
    IF kind = "status" THEN <<"Cortex Analyst API Error - Status, Message">>
    ELSE <<"Request failed:", kind>>

CortexCompleteResponseSqlAsError(o) ==
    CASE o.kind \in {"transport", "status"}
            -> CortexReturn(<<>>, CortexRequestError(o.kind), NoContent)
      [] o.kind = "non_message"
            -> CortexReturn(<<"str", "response">>, None, NoContent)
      [] o.kind = "malformed"
            -> CortexRaise(<<"KeyError: content">>)
      [] OTHER ->
            IF SqlStatement(o.content) # "None" /\ o.sql = "raises"
            THEN CortexReturn(<<>>, <<"Error executing query:", SqlStatement(o.content)>>,
                              NoContent)
            ELSE CortexReturn(Join(TextParts(o.content)), None, o.content)

\* SnowflakeCortexAnalyst.get_complete_response for one outcome of the API
\* call and of the SQL execution
CortexCompleteResponse(o) ==
    CASE o.kind \in {"transport", "status"}
            -> CortexReturn(<<>>, CortexRequestError(o.kind), NoContent)
      [] o.kind = "non_message"
            -> CortexReturn(<<"str", "response">>, None, NoContent)
      [] o.kind = "malformed"
            -> CortexRaise(<<"KeyError: content">>)
      [] OTHER ->
            LET interpretation == Join(TextParts(o.content))
                sql_statement == SqlStatement(o.content)
            IN IF sql_statement = "None"
               THEN CortexReturn(interpretation, None, o.content)
               ELSE CASE o.sql = "rows"
                          -> CortexReturn(<<"**">> \o interpretation
                                 \o <<"**", "Query Results", sql_statement>>,
                                 None, o.content)
                      [] o.sql = "empty"
                          -> CortexReturn(interpretation
                                 \o <<"Query executed successfully but returned no results.">>,
                                 None, o.content)
                      [] OTHER
                          -> CortexReturn(interpretation
                                 \o <<"Error executing query:", sql_statement>>,
                                 None, o.content)

----------------------------------------------------------------------------
(* UnifiedAssistant.get_complete_response *)

RouterReturn(text, err, api) ==
    [kind |-> "return", response |-> text, error |-> err, api_content |-> api,
     exc |-> None]
RouterRaise(e) ==
    [kind |-> "raise", response |-> <<>>, error |-> None, api_content |-> NoContent,
     exc |-> e]
NoResult ==
    [kind |-> "none", response |-> <<>>, error |-> None, api_content |-> NoContent,
     exc |-> None]

FallbackNote ==
    <<"\n\n*Note: Response provided by Cortex Analyst (Intelligence Agent temporarily unavailable)*">>

IntelligenceFailedErrorBare(e) == <<"Intelligence Agent failed">>

\* f"Intelligence Agent failed: {str(e)}"
IntelligenceFailedError(e) == <<"Intelligence Agent failed:">> \o e

\* f"Both Intelligence Agent and Cortex Analyst failed. Intelligence: {e}, Cortex: {cortex_error}"
BothFailedError(e, ce) ==
    <<"Both Intelligence Agent and Cortex Analyst failed.", "Intelligence:">> \o e
    \o <<", Cortex:">> \o ce

RouterFallbackWithoutNote(e, c) ==
    IF c.kind = "raise"
    THEN RouterReturn(<<>>, BothFailedError(e, c.exc), NoContent)
    ELSE RouterReturn(c.response, c.error, c.api_content)

\* The fallback branch: e is the Intelligence exception, c what
\* _get_cortex_response returned or raised.
RouterFallback(e, c) ==
    IF c.kind = "raise"
    THEN RouterReturn(<<>>, BothFailedError(e, c.exc), NoContent)
    ELSE RouterReturn(IF ~Truthy(c.error) THEN c.response \o FallbackNote
                      ELSE c.response,
                      c.error, c.api_content)

\* The else branch: return self._get_cortex_response(...), not wrapped.
RouterDirect(c) ==
    IF c.kind = "raise" THEN RouterRaise(c.exc)
    ELSE RouterReturn(c.response, c.error, c.api_content)

\* except Exception as e: the Intelligence call raised e.
IntelligenceRaised(e, ev) ==
    /\ intelFailure' = e
    /\ intelRaised' = TRUE
    /\ events' = Append(ev, "intelligence_raised")
    /\ IF fallback_to_cortex
       THEN pc' = "cortex" /\ result' = NoResult
       ELSE pc' = "done"
            /\ result' = RouterReturn(<<>>, IntelligenceFailedError(e), NoContent)

\* response, error = self._get_intelligence_response(messages)
\* return response, error, None
IntelligenceAnswered(r, ev) ==
    IF r.kind = "none"
    THEN IntelligenceRaised(UnpackError, ev)
    ELSE /\ intelFailure' = (IF Truthy(r.error) THEN r.error ELSE None)
         /\ intelRaised' = FALSE
         /\ events' = Append(ev, "intelligence_returned")
         /\ pc' = "done"
         /\ result' = RouterReturn(r.text, r.error, NoContent)

otherVars == <<streamVars, rolesVars, windowVars, laterVars>>

\* The replies the thread endpoint can give to a call made in state st; the
\* endpoint is reached only while no thread id is cached.
ReplyChoices(st) == IF st.thread_id = NoThread THEN ThreadReplies ELSE {"not called"}

\* A turn begins: routing, client construction, and the part of
\* get_agent_response before the first ':run' request.
StartTurn ==
    /\ pc \in {"idle", "done"}
    /\ turns < MaxTurns
    /\ \E msgs \in MessageLists :
        /\ messages' = msgs
        /\ turns' = turns + 1
        /\ attempts' = <<>>
        /\ error' = None
        /\ agentRet' = NoAgentReturn
        /\ cortexRet' = NoCortexReturn
        /\ IF ~use_intelligence
           THEN /\ pc' = "cortex"
                /\ result' = NoResult
                /\ events' = <<>>
                /\ intelFailure' = None
                /\ intelRaised' = FALSE
                /\ UNCHANGED <<intelligence_client, thread_id, threadCalls,
                               uuidCount, request_variations>>
           ELSE IF ~intelligence_client /\ ~secrets.has_snowflake
           THEN \* config = st.secrets["snowflake"] raises in _get_intelligence_client
                /\ IntelligenceRaised(SecretsKeyError, <<"intelligence_call">>)
                /\ UNCHANGED <<intelligence_client, thread_id, threadCalls,
                               uuidCount, request_variations>>
           ELSE LET text == latest_user_message(msgs) IN
                /\ intelligence_client' = TRUE
                /\ IF ~Truthy(text)
                   THEN /\ IntelligenceAnswered(
                              AgentCompleteResponse(
                                  AgentReturn(EmptyDict, NoUserMessageError)),
                              <<"intelligence_call">>)
                        /\ UNCHANGED <<thread_id, threadCalls, uuidCount,
                                       request_variations>>
                   ELSE LET st0 == ThreadState(thread_id, threadCalls, uuidCount) IN
                        \E r1 \in ReplyChoices(st0) :
                        \E r2 \in ReplyChoices(get_or_create_thread_id(st0, r1)) :
                        \E r3 \in ReplyChoices(get_or_create_thread_id(
                                      get_or_create_thread_id(st0, r1), r2)) :
                        LET b == BuildVariations(st0, <<r1, r2, r3>>, text) IN
                        /\ thread_id' = b.state.thread_id
                        /\ threadCalls' = b.state.threadCalls
                        /\ uuidCount' = b.state.uuidCount
                        /\ request_variations' = b.bodies
                        /\ pc' = "attempt"
                        /\ result' = NoResult
                        /\ events' = <<"intelligence_call">>
                        /\ intelFailure' = None
                        /\ intelRaised' = FALSE
    /\ UNCHANGED <<secrets, use_intelligence, fallback_to_cortex, cortex_client,
                   sentThreadIds, otherVars>>

\* One ':run' request of get_agent_response and what follows from its outcome.
Attempt ==
    /\ pc = "attempt"
    /\ LET i == Len(attempts) + 1
           body == request_variations[AttemptShape(i)]
       IN \E o \in AttemptOutcomes(i) :
           /\ attempts' = Append(attempts,
                  [shape |-> AttemptShape(i), mode |-> AttemptMode(i),
                   body |-> body, ok |-> o.ok, response |-> o.response])
           /\ sentThreadIds' = sentThreadIds \cup
                  (IF body.thread_id # NoThread THEN {body.thread_id} ELSE {})
           /\ error' = o.error
           /\ IF o.ok
              THEN /\ agentRet' = AgentReturn(o.response, None)
                   /\ IntelligenceAnswered(
                          AgentCompleteResponse(AgentReturn(o.response, None)), events)
              ELSE IF i < NumAttempts
              THEN UNCHANGED <<agentRet, pc, result, events, intelFailure, intelRaised>>
              ELSE /\ agentRet' = AgentReturn(EmptyDict, AllFailedError(o.error))
                   /\ IntelligenceAnswered(
                          AgentCompleteResponse(
                              AgentReturn(EmptyDict, AllFailedError(o.error))), events)
    /\ UNCHANGED <<secrets, use_intelligence, fallback_to_cortex, intelligence_client,
                   cortex_client, thread_id, threadCalls, uuidCount, messages,
                   request_variations, cortexRet, turns, otherVars>>

\* self._get_cortex_response(messages, semantic_model_path) and the router's
\* handling of what it gives.
CortexCall ==
    /\ pc = "cortex"
    /\ \E o \in CortexOutcomes :
        LET c == IF ~cortex_client /\ ~secrets.has_snowflake
                 THEN CortexRaise(SecretsKeyError)
                 ELSE CortexCompleteResponse(o)
        IN /\ cortexRet' = c
           /\ cortex_client' = (cortex_client \/ secrets.has_snowflake)
           /\ events' = Append(events, "cortex_call")
           /\ result' = IF use_intelligence THEN RouterFallback(intelFailure, c)
                        ELSE RouterDirect(c)
           /\ pc' = "done"
    /\ UNCHANGED <<secrets, use_intelligence, fallback_to_cortex, intelligence_client,
                   thread_id, threadCalls, uuidCount, sentThreadIds, messages,
                   request_variations, attempts, error, agentRet, intelFailure,
                   intelRaised, turns, otherVars>>

----------------------------------------------------------------------------
(* Idle values of the variables a specification does not use *)

RouterIdle ==
    /\ secrets = [readable |-> TRUE, use_intelligence |-> "absent",
                  fallback_to_cortex |-> "absent", has_snowflake |-> TRUE]
    /\ use_intelligence = TRUE
    /\ fallback_to_cortex = TRUE
    /\ intelligence_client = FALSE
    /\ cortex_client = FALSE
    /\ thread_id = NoThread
    /\ threadCalls = 0
    /\ uuidCount = 0
    /\ sentThreadIds = {}
    /\ pc = "idle"
    /\ messages = <<>>
    /\ request_variations = <<>>
    /\ attempts = <<>>
    /\ error = None
    /\ agentRet = NoAgentReturn
    /\ intelFailure = None
    /\ intelRaised = FALSE
    /\ cortexRet = NoCortexReturn
    /\ events = <<>>
    /\ result = NoResult
    /\ turns = 0

StreamIdle ==
    /\ s_lines = <<>>
    /\ s_pos = 0
    /\ content_parts = <<>>
    /\ thinking_content = <<>>
    /\ final_response = <<>>
    /\ status = "unknown"
    /\ tools_executed = <<>>
    /\ s_result = NotYet

RolesIdle ==
    /\ r_messages = <<>>
    /\ r_pos = 0
    /\ filtered = <<>>
    /\ last_role = "None"
    /\ r_pc = "returned"
    /\ r_result = <<>>

WindowIdle ==
    /\ w_messages = <<>>
    /\ max_messages = 0
    /\ max_tokens = 0
    /\ w_pc = "returned"
    /\ w_result = <<>>

StoreIdle ==
    /\ storage_backend = "session"
    /\ conversations = <<>>
    /\ user_id_memo = FALSE
    /\ table = <<>>
    /\ query_cache = <<>>
    /\ next_message = 0
    /\ op = [kind |-> "none"]

TokenIdle ==
    /\ environ = <<>>
    /\ connection_name = "None"
    /\ files = <<>>
    /\ snowflake_secrets = <<>>
    /\ pat_pc = "returned"
    /\ pat_result = <<>>

ToolIdle ==
    /\ tool_call = <<>>
    /\ tool_data = "ok"
    /\ tool_pc = "returned"
    /\ tool_result = <<>>

ParIdle ==
    /\ queries = 0
    /\ max_workers = 1
    /\ return_empty_on_error = TRUE
    /\ running_attr = "false"
    /\ future = <<>>
    /\ results = <<>>
    /\ errors = {}
    /\ par_pc = "returned"
    /\ par_exc = None

WidgetIdle ==
    /\ page = "None"
    /\ widget_messages = <<>>
    /\ confirm_clear = "absent"
    /\ pending_question = None
    /\ widget_turns = 0

OeeIdle ==
    /\ df_prod = <<>>
    /\ oee_pc = "returned"
    /\ oee_result = <<>>

AnalystIdle ==
    /\ analyst_messages = <<>>
    /\ analyst_request = <<>>
    /\ analyst_reply = <<>>
    /\ analyst_pc = "returned"
    /\ analyst_result = <<>>

CoreIdle == RouterIdle /\ StreamIdle /\ RolesIdle /\ WindowIdle
LaterIdle == StoreIdle /\ TokenIdle /\ ToolIdle /\ ParIdle /\ WidgetIdle /\ OeeIdle /\ AnalystIdle

----------------------------------------------------------------------------
(* The router: state after UnifiedAssistant() was constructed *)

Init ==
    /\ secrets \in SecretStates
    /\ use_intelligence = get_feature_flag(secrets)
    /\ fallback_to_cortex = get_fallback_flag(secrets)
    /\ intelligence_client = FALSE
    /\ cortex_client = FALSE
    /\ thread_id = NoThread
    /\ threadCalls = 0
    /\ uuidCount = 0
    /\ sentThreadIds = {}
    /\ pc = "idle"
    /\ messages = <<>>
    /\ request_variations = <<>>
    /\ attempts = <<>>
    /\ error = None
    /\ agentRet = NoAgentReturn
    /\ intelFailure = None
    /\ intelRaised = FALSE
    /\ cortexRet = NoCortexReturn
    /\ events = <<>>
    /\ result = NoResult
    /\ turns = 0
    /\ StreamIdle /\ RolesIdle /\ WindowIdle /\ LaterIdle

Next == StartTurn \/ Attempt \/ CortexCall

Spec == Init /\ [][Next]_vars

----------------------------------------------------------------------------
(* Claims about the router and the Intelligence Agent client *)

CortexCalled == \E k \in 1..Len(events) : events[k] = "cortex_call"

\* C1: with use_intelligence and fallback_to_cortex both true, whenever the
\* Intelligence call of a turn raises and the Cortex call of the turn returns
\* no error, the router returns the Cortex text followed by the fallback
\* note, no error, and the Cortex API content; and the Cortex client is only
\* ever called after the Intelligence call of the turn has raised.
C1_FallbackAppendsNote ==
    use_intelligence =>
        /\ \A k \in 1..Len(events) : events[k] = "cortex_call" =>
              /\ fallback_to_cortex
              /\ k = 3
              /\ events[1] = "intelligence_call"
              /\ events[2] = "intelligence_raised"
        /\ (/\ pc = "done" /\ fallback_to_cortex /\ intelRaised
            /\ cortexRet.kind = "return" /\ ~Truthy(cortexRet.error))
           => /\ result.kind = "return"
              /\ result.response = cortexRet.response \o FallbackNote
              /\ ~Truthy(result.error)
              /\ result.api_content = cortexRet.api_content

C1_Witness ==
    /\ pc = "done" /\ use_intelligence /\ fallback_to_cortex /\ intelRaised
    /\ cortexRet.kind = "return" /\ ~Truthy(cortexRet.error)
    /\ cortexRet.response # <<>> /\ cortexRet.api_content # NoContent

AllAttemptsFailed ==
    /\ Len(attempts) = NumAttempts
    /\ \A k \in 1..NumAttempts : ~attempts[k].ok

\* C2: with use_intelligence and fallback_to_cortex both true, a turn in which
\* every ':run' request of the Intelligence Agent failed (timeout, connection
\* failure or error status) ends with the Cortex Analyst client called.
C2_TransportErrorFallsBack ==
    (pc = "done" /\ use_intelligence /\ fallback_to_cortex /\ AllAttemptsFailed)
        => CortexCalled

\* C3: with use_intelligence true and fallback_to_cortex false, whenever the
\* Intelligence call fails the router returns an empty text, an error that
\* carries the Intelligence failure text and no API content, and the Cortex
\* client is not called in the turn.
C3_NoFallbackReturnsPrimaryFailure ==
    (pc = "done" /\ use_intelligence /\ ~fallback_to_cortex /\ Truthy(intelFailure))
        => /\ result.kind = "return"
           /\ result.response = <<>>
           /\ Truthy(result.error)
           /\ Contains(result.error, intelFailure)
           /\ result.api_content = NoContent
           /\ ~CortexCalled
           /\ cortexRet = NoCortexReturn

C3_Witness ==
    /\ pc = "done" /\ use_intelligence /\ ~fallback_to_cortex
    /\ intelRaised /\ intelFailure = UnpackError

CortexFailure ==
    IF cortexRet.kind = "raise" THEN cortexRet.exc ELSE cortexRet.error

\* C4: with use_intelligence and fallback_to_cortex both true, whenever the
\* Intelligence call fails and the Cortex fallback call of the turn fails too
\* (raising, or returning an error), the router returns one error that cites
\* both the Intelligence failure and the Cortex failure.
C4_BothFailuresCited ==
    (/\ pc = "done" /\ use_intelligence /\ fallback_to_cortex
     /\ Truthy(intelFailure) /\ CortexCalled /\ Truthy(CortexFailure))
        => /\ result.kind = "return"
           /\ Contains(result.error, intelFailure)
           /\ Contains(result.error, CortexFailure)

\* C5 as stated: when the secret store cannot be read at construction,
\* use_intelligence is true and fallback_to_cortex is true.
C5_UnreadableEnablesIntelligence ==
    ~secrets.readable => (use_intelligence /\ fallback_to_cortex)

\* C5 amended: when the secret store cannot be read at construction,
\* use_intelligence is false and fallback_to_cortex is true, so every turn
\* goes to Cortex Analyst and the Intelligence Agent is never called.
C5_UnreadableDefaultsToCortex ==
    ~secrets.readable =>
        /\ ~use_intelligence
        /\ fallback_to_cortex
        /\ \A k \in 1..Len(events) : events[k] = "cortex_call"
        /\ attempts = <<>>
        /\ ~intelligence_client

C5_Witness == ~secrets.readable /\ pc = "done" /\ CortexCalled

ExpectedAttempts ==
    << <<1, "streaming">>, <<1, "json">>, <<2, "streaming">>, <<2, "json">>,
       <<3, "streaming">>, <<3, "json">>, <<4, "streaming">>, <<4, "json">> >>

\* C6: the ':run' attempts of a turn are a prefix of shape1-streaming,
\* shape1-JSON, ..., shape4-streaming, shape4-JSON; an attempt is made only
\* after every earlier one failed; the first attempt without error ends the
\* sequence and its response is returned; at most eight attempts are made;
\* and when all eight fail the returned error contains the error of the
\* last attempt (shape 4, non-streaming).
C6_AttemptSequence ==
    /\ Len(attempts) <= 8
    /\ \A k \in 1..Len(attempts) :
          /\ attempts[k].shape = ExpectedAttempts[k][1]
          /\ attempts[k].mode = ExpectedAttempts[k][2]
          /\ attempts[k].body = request_variations[ExpectedAttempts[k][1]]
          /\ k < Len(attempts) => ~attempts[k].ok
    /\ pc = "attempt" => \A k \in 1..Len(attempts) : ~attempts[k].ok
    /\ (attempts # <<>> /\ attempts[Len(attempts)].ok)
          => /\ agentRet.response = attempts[Len(attempts)].response
             /\ agentRet.error = None
    /\ (pc # "attempt" /\ Len(attempts) = 8 /\ ~attempts[8].ok)
          => /\ error \in {JsonError(k) : k \in ErrKinds}
             /\ Truthy(agentRet.error)
             /\ Contains(agentRet.error, error)
             /\ result.error = agentRet.error

C6_Witness == pc = "done" /\ AllAttemptsFailed /\ error = JsonError("transport")

----------------------------------------------------------------------------
(* SnowflakeIntelligenceAgent._parse_streaming_response *)

Fld(kind, text) == [kind |-> kind, text |-> text]
Absent == Fld("absent", <<>>)
Cnt(kind, text, items) == [kind |-> kind, text |-> text, items |-> items]
NoCnt == Cnt("absent", <<>>, <<>>)

\* One 'data: ' line holding a JSON object, by the fields the parser reads:
\* status, text+content_index (thinking delta), content, message, response.
Data(st, th, c, m, r) ==
    [kind |-> "data", status |-> st, thinking |-> th, content |-> c,
     message |-> m, response |-> r]
Other(kind) ==
    [kind |-> kind, status |-> "absent", thinking |-> None, content |-> NoCnt,
     message |-> Absent, response |-> Absent]

\* The lines a stream is made of.
StreamLines ==
    { Data("absent", None, NoCnt, Absent, Fld("str", <<"r1">>)),
      Data("absent", None, NoCnt, Absent, Fld("dict_content", <<"r2">>)),
      Data("absent", None, NoCnt, Absent, Fld("str", <<>>)),
      Data("absent", None, NoCnt, Absent, Fld("dict_no_content", <<>>)),
      Data("absent", None, NoCnt, Fld("dict_content", <<"m1">>), Absent),
      Data("absent", None, NoCnt, Fld("dict_content", <<>>), Absent),
      Data("absent", None, NoCnt, Fld("not_dict", <<>>), Absent),
      Data("absent", None, NoCnt, Fld("dict_content", <<"m2">>), Fld("str", <<"r3">>)),
      Data("absent", None, Cnt("str", <<"c1">>, <<>>), Absent, Absent),
      Data("absent", None, Cnt("str", <<>>, <<>>), Absent, Absent),
      Data("absent", None,
           Cnt("list", <<>>, << <<"text", "c2">>, <<"tool_calls", "tool">>,
                               <<"text", "c3">> >>),
           Absent, Absent),
      Data("absent", <<"t1">>, NoCnt, Absent, Absent),
      Data("running", None, NoCnt, Absent, Absent),
      Other("malformed"),     \* 'data: ' line that is not JSON: skipped
      Other("event"),         \* 'event: ' line: logged only
      Other("non_object") }   \* 'data: ' line whose JSON is not an object

SeqsUpTo(S, n) == UNION {[1..k -> S] : k \in 0..n}

ParserState(st, th, cp, tools, fin) ==
    [status |-> st, thinking_content |-> th, content_parts |-> cp,
     tools_executed |-> tools, final_response |-> fin]

\* for item in data['content']: text items -> content_parts, tool_calls items
\* -> tools_executed
RECURSIVE ContentItems(_, _)
ContentItems(p, items) ==
    IF items = <<>> THEN p
    ELSE LET item == Head(items)
             q == IF item[1] = "text"
                  THEN [p EXCEPT !.content_parts = Append(@, <<item[2]>>)]
                  ELSE IF item[1] = "tool_calls"
                  THEN [p EXCEPT !.tools_executed = Append(@, item)]
                  ELSE p
         IN ContentItems(q, Tail(items))

ParseEventMessageLast(p, d) ==
    LET p1 == IF d.status # "absent" THEN [p EXCEPT !.status = d.status] ELSE p
        p2 == IF d.thinking # None
              THEN [p1 EXCEPT !.thinking_content = Append(@, d.thinking)] ELSE p1
        p3 == IF d.content.kind = "list" THEN ContentItems(p2, d.content.items)
              ELSE IF d.content.kind = "str"
              THEN [p2 EXCEPT !.content_parts = Append(@, d.content.text)]
              ELSE p2
        p4 == IF d.response.kind \in {"dict_content", "str"}
              THEN [p3 EXCEPT !.final_response = d.response.text] ELSE p3
        p5 == IF d.message.kind = "dict_content"
              THEN [p4 EXCEPT !.final_response = d.message.text] ELSE p4
    IN p5

\* The body of the loop for one decoded 'data: ' object d.
ParseEvent(p, d) ==
    LET p1 == IF d.status # "absent" THEN [p EXCEPT !.status = d.status] ELSE p
        p2 == IF d.thinking # None
              THEN [p1 EXCEPT !.thinking_content = Append(@, d.thinking)] ELSE p1
        p3 == IF d.content.kind = "list" THEN ContentItems(p2, d.content.items)
              ELSE IF d.content.kind = "str"
              THEN [p2 EXCEPT !.content_parts = Append(@, d.content.text)]
              ELSE p2
        p4 == IF d.message.kind = "dict_content"
              THEN [p3 EXCEPT !.final_response = d.message.text] ELSE p3
        p5 == IF d.response.kind \in {"dict_content", "str"}
              THEN [p4 EXCEPT !.final_response = d.response.text] ELSE p4
    IN p5

\* ''.join(parts)
RECURSIVE Concat(_)
Concat(parts) == IF parts = <<>> THEN <<>> ELSE Head(parts) \o Concat(Tail(parts))

ProcessedText == <<"I've processed your request successfully.">>
AnalysisPrefix == <<"Based on my analysis: ">>
ApologyText ==
    <<"I apologize, but I encountered an error processing the response. Please try again.">>

\* "Combine all content sources in priority order"
ResponseText(fin, cp, th) ==
    IF fin # <<>> THEN fin
    ELSE IF cp # <<>> THEN Concat(cp)
    ELSE IF th # <<>> THEN AnalysisPrefix \o Concat(th)
    ELSE ProcessedText

\* One iteration of 'for line in response.iter_lines(...)'.
ParseLine ==
    /\ s_result = NotYet
    /\ s_pos < Len(s_lines)
    /\ LET line == s_lines[s_pos + 1] IN
       CASE line.kind = "data" ->
              LET q == ParseEvent(ParserState(status, thinking_content, content_parts,
                                              tools_executed, final_response), line)
              IN /\ status' = q.status
                 /\ thinking_content' = q.thinking_content
                 /\ content_parts' = q.content_parts
                 /\ tools_executed' = q.tools_executed
                 /\ final_response' = q.final_response
                 /\ s_pos' = s_pos + 1
                 /\ UNCHANGED s_result
         [] line.kind = "non_object" ->
              \* the membership tests raise; the outer except returns the apology
              /\ s_result' = ApologyText
              /\ s_pos' = s_pos + 1
              /\ UNCHANGED <<status, thinking_content, content_parts, tools_executed,
                             final_response>>
         [] OTHER ->
              /\ s_pos' = s_pos + 1
              /\ UNCHANGED <<status, thinking_content, content_parts, tools_executed,
                             final_response, s_result>>
    /\ UNCHANGED <<s_lines, routerVars, rolesVars, windowVars, laterVars>>

\* After the loop: choose response_text and return the dict.
ParseFinish ==
    /\ s_result = NotYet
    /\ s_pos = Len(s_lines)
    /\ s_result' = ResponseText(final_response, content_parts, thinking_content)
    /\ UNCHANGED <<s_lines, s_pos, status, thinking_content, content_parts,
                   tools_executed, final_response, routerVars, rolesVars, windowVars,
                   laterVars>>

InitStream ==
    /\ s_lines \in SeqsUpTo(StreamLines, MaxLines)
    /\ s_pos = 0
    /\ content_parts = <<>>
    /\ thinking_content = <<>>
    /\ final_response = <<>>
    /\ status = "unknown"
    /\ tools_executed = <<>>
    /\ s_result = NotYet
    /\ RouterIdle /\ RolesIdle /\ WindowIdle /\ LaterIdle

NextStream == ParseLine \/ ParseFinish

SpecStream == InitStream /\ [][NextStream]_vars

----------------------------------------------------------------------------
(* Claims about _parse_streaming_response *)

WellFormedStream == \A k \in 1..Len(s_lines) : s_lines[k].kind # "non_object"
Returned == s_result # NotYet

HasResponse(l) == l.kind = "data" /\ l.response.kind \in {"dict_content", "str"}
HasMessage(l) == l.kind = "data" /\ l.message.kind = "dict_content"

\* The 'content' deltas and the thinking deltas of the whole stream.
RECURSIVE StreamContent(_)
StreamContent(ls) ==
    IF ls = <<>> THEN <<>>
    ELSE LET l == Head(ls)
             here == IF l.kind # "data" THEN <<>>
                     ELSE IF l.content.kind = "str" THEN <<l.content.text>>
                     ELSE IF l.content.kind = "list"
                     THEN LET it == l.content.items
                              texts == {j \in 1..Len(it) : it[j][1] = "text"}
                              RECURSIVE Pick(_)
                              Pick(j) == IF j > Len(it) THEN <<>>
                                         ELSE (IF j \in texts THEN << <<it[j][2]>> >>
                                               ELSE <<>>) \o Pick(j + 1)
                          IN Pick(1)
                     ELSE <<>>
         IN here \o StreamContent(Tail(ls))

RECURSIVE StreamThinking(_)
StreamThinking(ls) ==
    IF ls = <<>> THEN <<>>
    ELSE (IF Head(ls).kind = "data" /\ Head(ls).thinking # None
          THEN <<Head(ls).thinking>> ELSE <<>>) \o StreamThinking(Tail(ls))

LowerSources ==
    IF StreamContent(s_lines) # <<>> THEN Concat(StreamContent(s_lines))
    ELSE IF StreamThinking(s_lines) # <<>>
    THEN AnalysisPrefix \o Concat(StreamThinking(s_lines))
    ELSE ProcessedText

NonEmptyValues ==
    \A k \in 1..Len(s_lines) :
        /\ HasResponse(s_lines[k]) => s_lines[k].response.text # <<>>
        /\ HasMessage(s_lines[k]) => s_lines[k].message.text # <<>>

\* C8 as stated: over the whole stream the answer is taken by fixed priority,
\* a 'response' value first, else a message.content value, else the content
\* deltas, else the thinking deltas, else the fixed string; so a
\* message.content event after a 'response' event does not replace the
\* 'response' value.  (Stated here for streams whose values are non-empty.)
C8_FixedPriorityOverStream ==
    (Returned /\ WellFormedStream /\ NonEmptyValues) =>
        IF \E k \in 1..Len(s_lines) : HasResponse(s_lines[k])
        THEN \E k \in 1..Len(s_lines) :
                HasResponse(s_lines[k]) /\ s_result = s_lines[k].response.text
        ELSE IF \E k \in 1..Len(s_lines) : HasMessage(s_lines[k])
        THEN \E k \in 1..Len(s_lines) :
                HasMessage(s_lines[k]) /\ s_result = s_lines[k].message.text
        ELSE s_result = LowerSources

\* The last line of the stream that carries a 'response' value or a
\* message.content value (0 if none), and the value it leaves behind.
LastFinalLine ==
    LET S == {k \in 1..Len(s_lines) : HasResponse(s_lines[k]) \/ HasMessage(s_lines[k])}
    IN IF S = {} THEN 0 ELSE CHOOSE k \in S : \A j \in S : j <= k
LastFinalValue ==
    IF LastFinalLine = 0 THEN <<>>
    ELSE IF HasResponse(s_lines[LastFinalLine])
    THEN s_lines[LastFinalLine].response.text
    ELSE s_lines[LastFinalLine].message.text

\* C8 amended: the final response is the value of the last event that carries
\* a 'response' value or a message.content value ('response' winning only
\* inside one event); if it is non-empty it is the answer, otherwise the
\* content deltas, else the thinking deltas, else the fixed string.
C8_LastFinalValueWins ==
    (Returned /\ WellFormedStream) =>
        s_result = IF LastFinalValue # <<>> THEN LastFinalValue ELSE LowerSources

C8_Witness ==
    /\ Returned /\ WellFormedStream /\ Len(s_lines) >= 2
    /\ HasResponse(s_lines[1]) /\ s_lines[1].response.text # <<>>
    /\ HasMessage(s_lines[2]) /\ ~HasResponse(s_lines[2])
    /\ s_result = s_lines[2].message.text

----------------------------------------------------------------------------
(* SnowflakeCortexAnalyst._ensure_alternating_roles *)

ApiRoles == {"user", "analyst"}

\* Message lists with roles in {user, analyst}; the content of a message is
\* its position in the list, so every message is told apart.
RoleMessageLists ==
    UNION {{[k \in 1..n |-> [role |-> f[k], content |-> k]] : f \in [1..n -> ApiRoles]}
              : n \in 0..MaxRoleMessages}

LoopState(f, lr) == [filtered |-> f, last_role |-> lr]

RolesStepKeepFirst(st, msg) ==
    IF msg.role = st.last_role
    THEN st
    ELSE LoopState(Append(st.filtered, msg), msg.role)

\* One iteration of 'for msg in messages': a message with the role of the
\* previous one replaces filtered[-1], any other message is appended.
RolesStep(st, msg) ==
    IF msg.role = st.last_role
    THEN IF st.filtered # <<>>
         THEN LoopState([st.filtered EXCEPT ![Len(st.filtered)] = msg], st.last_role)
         ELSE st
    ELSE LoopState(Append(st.filtered, msg), msg.role)

\* if filtered and filtered[0].get("role") != "user": filtered = filtered[1:]
DropLeadingNonUser(f) ==
    IF f # <<>> /\ f[1].role # "user" THEN Tail(f) ELSE f

RolesLoop ==
    /\ r_pc = "loop"
    /\ r_pos < Len(r_messages)
    /\ LET st == RolesStep(LoopState(filtered, last_role), r_messages[r_pos + 1]) IN
        /\ filtered' = st.filtered
        /\ last_role' = st.last_role
    /\ r_pos' = r_pos + 1
    /\ UNCHANGED <<r_messages, r_pc, r_result, routerVars, streamVars, windowVars,
                   laterVars>>

\* 'if not messages: return messages', or the code after the loop.
RolesReturn ==
    /\ r_pc = "loop"
    /\ r_pos = Len(r_messages)
    /\ r_result' = IF r_messages = <<>> THEN r_messages ELSE DropLeadingNonUser(filtered)
    /\ r_pc' = "returned"
    /\ UNCHANGED <<r_messages, r_pos, filtered, last_role, routerVars, streamVars,
                   windowVars, laterVars>>

InitRoles ==
    /\ r_messages \in RoleMessageLists
    /\ r_pos = 0
    /\ filtered = <<>>
    /\ last_role = "None"
    /\ r_pc = "loop"
    /\ r_result = <<>>
    /\ RouterIdle /\ StreamIdle /\ WindowIdle /\ LaterIdle

NextRoles == RolesLoop \/ RolesReturn

SpecRoles == InitRoles /\ [][NextRoles]_vars

\* The positions that end a maximal run of same-role messages.
RunEnds(ms) ==
    {k \in 1..Len(ms) : k = Len(ms) \/ ms[k + 1].role # ms[k].role}

\* The messages of ms at the positions in S, in their order in ms.
RECURSIVE Restrict(_, _)
Restrict(ms, S) ==
    IF ms = <<>> THEN <<>>
    ELSE Restrict(SubSeq(ms, 1, Len(ms) - 1), S)
         \o (IF Len(ms) \in S THEN <<ms[Len(ms)]>> ELSE <<>>)

\* C9: every maximal run of same-role messages is replaced by its last
\* message, then a leading non-user message is dropped; the result strictly
\* alternates, starts with a user message when non-empty and keeps the order
\* of the kept messages.
C9_AlternatingRoles ==
    r_pc = "returned" =>
        LET collapsed == Restrict(r_messages, RunEnds(r_messages))
            expected == IF collapsed # <<>> /\ collapsed[1].role # "user"
                        THEN Tail(collapsed) ELSE collapsed
        IN /\ r_result = expected
           /\ \A k \in 1..(Len(r_result) - 1) : r_result[k].role # r_result[k + 1].role
           /\ r_result # <<>> => r_result[1].role = "user"
           /\ \A k \in 1..(Len(r_result) - 1) :
                 r_result[k].content < r_result[k + 1].content

\* [user, user, analyst, analyst, user] gives [second user, second analyst,
\* last user]
C9_Witness ==
    /\ r_pc = "returned"
    /\ Len(r_messages) = 5
    /\ [k \in 1..5 |-> r_messages[k].role]
          = <<"user", "user", "analyst", "analyst", "user">>
    /\ [k \in 1..Len(r_result) |-> r_result[k].content] = <<2, 4, 5>>

----------------------------------------------------------------------------
(* ConversationManager.manage_context_window *)

Max(a, b) == IF a > b THEN a ELSE b
Min(a, b) == IF a < b THEN a ELSE b

\* Python's s[a:b] for a sequence s and integers a, b
SliceIndex(i, n) == IF i < 0 THEN Max(n + i, 0) ELSE Min(i, n)
Slice(s, a, b) == SubSeq(s, SliceIndex(a, Len(s)) + 1, SliceIndex(b, Len(s)))

Chars(n) == [k \in 1..n |-> "x"]

\* A conversation of n messages: the k-th message has timestamp k, and the
\* role and the number of content characters that f gives it.
WindowChoices == {"user", "assistant"} \X (0..MaxContentLen)
WindowMessages(n, f) ==
    [k \in 1..n |-> [role |-> f[k][1], content |-> Chars(f[k][2]), timestamp |-> k]]

\* sum(len(msg.get("content", "")) for msg in messages)
RECURSIVE TotalChars(_)
TotalChars(ms) ==
    IF ms = <<>> THEN 0 ELSE Len(Head(ms).content) + TotalChars(Tail(ms))

\* [msg["content"] for msg in messages if msg["role"] == "user"]
RECURSIVE UserQueries(_)
UserQueries(ms) ==
    IF ms = <<>> THEN <<>>
    ELSE (IF Head(ms).role = "user" THEN <<Head(ms).content>> ELSE <<>>)
         \o UserQueries(Tail(ms))

\* "; ".join(user_queries)
RECURSIVE JoinQueries(_)
JoinQueries(qs) ==
    IF qs = <<>> THEN <<>>
    ELSE IF Len(qs) = 1 THEN qs[1]
    ELSE qs[1] \o <<"; ">> \o JoinQueries(Tail(qs))

summarize_messages(ms) ==
    LET user_queries == UserQueries(ms) IN
    IF Len(user_queries) = 0 THEN <<"No significant conversation history">>
    ELSE IF Len(user_queries) <= 3
    THEN <<"Previous questions: ">> \o JoinQueries(user_queries)
    ELSE <<"User asked", ToString(Len(user_queries)),
           "questions about asset health, maintenance, and OEE metrics">>

SummaryMessage(ms) ==
    [role |-> "system",
     content |-> <<"[Previous conversation summary: ">> \o summarize_messages(ms)
                 \o <<"]">>,
     timestamp |-> 0]

KeepLastCap == 15
CharsPerToken == 4

\* The part of manage_context_window after both early returns.
Prune(ms, maxm) ==
    LET keep_last == Min(KeepLastCap, maxm - 1)
        first == <<ms[1]>>
        summary == IF Len(ms) > keep_last + 1
                   THEN <<SummaryMessage(Slice(ms, 1, -keep_last))>>
                   ELSE <<>>
    IN first \o summary \o Slice(ms, -keep_last, Len(ms))

manage_context_window_no_token_check(ms, maxm, maxt) ==
    IF Len(ms) <= maxm THEN ms ELSE Prune(ms, maxm)

\* estimated_tokens = total_chars / 4 is a float; for integers
\* total_chars / 4 < max_tokens is total_chars < 4 * max_tokens.
manage_context_window(ms, maxm, maxt) ==
    IF Len(ms) <= maxm THEN ms
    ELSE IF TotalChars(ms) < CharsPerToken * maxt THEN ms
    ELSE Prune(ms, maxm)

ManageContextWindow ==
    /\ w_pc = "call"
    /\ w_result' = manage_context_window(w_messages, max_messages, max_tokens)
    /\ w_pc' = "returned"
    /\ UNCHANGED <<w_messages, max_messages, max_tokens, routerVars, streamVars,
                   rolesVars, laterVars>>

InitWindow ==
    /\ \E n \in 0..MaxWindowMessages : \E f \in [1..n -> WindowChoices] :
          w_messages = WindowMessages(n, f)
    /\ max_messages \in 1..MaxMaxMessages
    /\ max_tokens \in 0..MaxMaxTokens
    /\ w_pc = "call"
    /\ w_result = <<>>
    /\ RouterIdle /\ StreamIdle /\ RolesIdle /\ LaterIdle

NextWindow == ManageContextWindow

SpecWindow == InitWindow /\ [][NextWindow]_vars

\* C10: manage_context_window returns its input list unchanged when the
\* message count is at or below max_messages, and also when the count is
\* above max_messages but the token estimate (characters / 4) is below
\* max_tokens.
C10_NoOpBelowLimits ==
    (/\ w_pc = "returned"
     /\ \/ Len(w_messages) <= max_messages
        \/ TotalChars(w_messages) < 4 * max_tokens)
        => w_result = w_messages

C10_Witness ==
    /\ w_pc = "returned"
    /\ Len(w_messages) > max_messages + 1
    /\ TotalChars(w_messages) > 0
    /\ TotalChars(w_messages) < 4 * max_tokens
    /\ w_result = w_messages

\* Pruning is triggered: both early returns of manage_context_window are passed.
PruningTriggered ==
    /\ w_pc = "returned"
    /\ Len(w_messages) > max_messages
    /\ TotalChars(w_messages) >= CharsPerToken * max_tokens

\* C11: whenever pruning is triggered, the result has at most
\* 1 + 1 + min(15, max_messages - 1) elements, its first element is the
\* original first message, and the elements after the optional summary are
\* exactly the last min(15, max_messages - 1) original messages in their
\* original order.
C11_PrunedShape ==
    PruningTriggered =>
        LET keep == Min(KeepLastCap, max_messages - 1)
            n == Len(w_result)
            m == Len(w_messages)
        IN /\ n <= 1 + 1 + keep
           /\ w_result[1] = w_messages[1]
           /\ n - keep \in {1, 2}
           /\ SubSeq(w_result, n - keep + 1, n) = SubSeq(w_messages, m - keep + 1, m)

----------------------------------------------------------------------------
(* ConversationManager: saving, loading and clearing conversations *)

MaxSaves == 2
MaxLimit == 3

ConversationIds == {"c1", "c2"}
StorageBackends == {"session", "snowflake"}

\* The record save_message builds; the n-th message has id and timestamp n.
\* Callers save a user message, then the assistant's answer with its backend
\* label; metadata and response_time_ms play no part in where a message is
\* stored.
SavedMessage(n, role, content, backend_used) ==
    [message_id |-> n, role |-> role, content |-> content, timestamp |-> n,
     backend_used |-> backend_used]
NewMessage(n) ==
    LET role == IF n % 2 = 1 THEN "user" ELSE "assistant"
    IN SavedMessage(n, role, <<ToString(n)>>,
                    IF role = "assistant" THEN <<"Cortex Analyst">> ELSE None)

\* _save_to_session.  A conversation key is created together with its first
\* message and removed by clear_conversation, so a key is absent exactly when
\* its list is empty.
save_to_session(convs, c, m) == [convs EXCEPT ![c] = Append(@, m)]

\* '{message["backend_used"]}' in the INSERT text: Python's None is written as
\* the text None.
NoneText == <<"N", "o", "n", "e">>
InsertedRow(c, m) ==
    [conversation_id |-> c, message_id |-> m.message_id, role |-> m.role,
     content |-> m.content, timestamp |-> m.timestamp,
     backend_used |-> IF m.backend_used = None THEN NoneText ELSE m.backend_used]

\* SELECT ... WHERE conversation_id = c ORDER BY timestamp ASC, turned into
\* message dicts by _load_from_snowflake.
RECURSIVE SelectMessages(_, _)
SelectMessages(tbl, c) ==
    IF tbl = <<>> THEN <<>>
    ELSE (IF Head(tbl).conversation_id = c
          THEN <<[message_id |-> Head(tbl).message_id, role |-> Head(tbl).role,
                  content |-> Head(tbl).content, timestamp |-> Head(tbl).timestamp,
                  backend_used |-> Head(tbl).backend_used]>>
          ELSE <<>>) \o SelectMessages(Tail(tbl), c)

NotCached == [cached |-> FALSE, messages |-> <<>>]

\* _load_from_snowflake through run_query (st.cache_data, ttl=600): a cached
\* SELECT text is answered from the cache; otherwise the statement is issued,
\* and its result is cached when it succeeds; a failure gives [].
load_from_snowflake(tbl, cache, c, load_ok) ==
    IF cache[c].cached
    THEN [messages |-> cache[c].messages, cache |-> cache, statements |-> 0]
    ELSE IF load_ok
    THEN [messages |-> SelectMessages(tbl, c),
          cache |-> [cache EXCEPT ![c] = [cached |-> TRUE,
                                          messages |-> SelectMessages(tbl, c)]],
          statements |-> 1]
    ELSE [messages |-> <<>>, cache |-> cache, statements |-> 1]

\* The limit argument: <<>> is Python's None, <<k>> the integer k.
LimitArgs == {<<>>} \cup {<<k>> : k \in 0..MaxLimit}

\* 'if limit: return messages[-limit:]', else 'return messages'
LimitMessages(msgs, limit) ==
    IF limit # <<>> /\ limit[1] # 0 THEN Slice(msgs, -limit[1], Len(msgs)) ELSE msgs

get_conversation_history(backend, convs, tbl, cache, c, limit, load_ok) ==
    LET loaded == IF backend = "session"
                  THEN [messages |-> convs[c], cache |-> cache, statements |-> 0]
                  ELSE load_from_snowflake(tbl, cache, c, load_ok)
    IN [loaded |-> loaded.messages,
        ret |-> LimitMessages(loaded.messages, limit),
        cache |-> loaded.cache, statements |-> loaded.statements]

\* _get_user_id: st.user's email, or on any failure a uuid memoised in
\* session state.
get_user_id(memo, user_ok) == IF user_ok THEN memo ELSE TRUE

Before == [conversations |-> conversations, table |-> table, query_cache |-> query_cache]

save_to_snowflake_without_fallback(convs, tbl, c, m, insert_ok) ==
    [conversations |-> convs,
     table |-> IF insert_ok THEN Append(tbl, InsertedRow(c, m)) ELSE tbl]

\* _save_to_snowflake: run_query(insert_sql); on any exception the message
\* goes to session storage instead.
save_to_snowflake(convs, tbl, c, m, insert_ok) ==
    IF insert_ok
    THEN [conversations |-> convs, table |-> Append(tbl, InsertedRow(c, m))]
    ELSE [conversations |-> save_to_session(convs, c, m), table |-> tbl]

SaveMessage ==
    /\ next_message < MaxSaves
    /\ \E c \in ConversationIds, insert_ok \in BOOLEAN, user_ok \in BOOLEAN :
          LET m == NewMessage(next_message + 1)
              saved == IF storage_backend = "session"
                       THEN [conversations |-> save_to_session(conversations, c, m),
                             table |-> table]
                       ELSE save_to_snowflake(conversations, table, c, m, insert_ok)
          IN /\ conversations' = saved.conversations
             /\ table' = saved.table
             /\ user_id_memo' = IF storage_backend = "snowflake"
                                THEN get_user_id(user_id_memo, user_ok)
                                ELSE user_id_memo
             /\ next_message' = next_message + 1
             /\ op' = [kind |-> "save", c |-> c, message |-> m,
                       inserted |-> storage_backend = "snowflake" /\ insert_ok,
                       ret |-> m.message_id, before |-> Before]
    /\ UNCHANGED <<storage_backend, query_cache, notStoreVars>>

GetConversationHistory ==
    /\ \E c \in ConversationIds, limit \in LimitArgs, load_ok \in BOOLEAN :
          LET h == get_conversation_history(storage_backend, conversations, table,
                                            query_cache, c, limit, load_ok)
          IN /\ query_cache' = h.cache
             /\ op' = [kind |-> "history", c |-> c, limit |-> limit,
                       loaded |-> h.loaded, ret |-> h.ret,
                       statements |-> h.statements, before |-> Before]
    /\ UNCHANGED <<storage_backend, conversations, user_id_memo, table, next_message,
                   notStoreVars>>

clear_conversation_everything(backend, convs, c) ==
    IF backend = "session" THEN [d \in DOMAIN convs |-> <<>>] ELSE convs

\* clear_conversation: the session backend deletes the key; the other branch
\* only logs.
clear_conversation(backend, convs, c) ==
    IF backend = "session" THEN [convs EXCEPT ![c] = <<>>] ELSE convs

ClearConversation ==
    /\ \E c \in ConversationIds :
          /\ conversations' = clear_conversation(storage_backend, conversations, c)
          /\ op' = [kind |-> "clear", c |-> c, statements |-> 0, before |-> Before]
    /\ UNCHANGED <<storage_backend, user_id_memo, table, query_cache, next_message,
                   notStoreVars>>

\* The 600 seconds of a cached SELECT result have passed.
CacheExpire ==
    /\ \E c \in ConversationIds :
          /\ query_cache[c].cached
          /\ query_cache' = [query_cache EXCEPT ![c] = NotCached]
          /\ op' = [kind |-> "expire", c |-> c]
    /\ UNCHANGED <<storage_backend, conversations, user_id_memo, table, next_message,
                   notStoreVars>>

InitStore ==
    /\ storage_backend \in StorageBackends
    /\ conversations = [c \in ConversationIds |-> <<>>]
    /\ user_id_memo = FALSE
    /\ table = <<>>
    /\ query_cache = [c \in ConversationIds |-> NotCached]
    /\ next_message = 0
    /\ op = [kind |-> "none"]
    /\ CoreIdle /\ TokenIdle /\ ToolIdle /\ ParIdle /\ WidgetIdle /\ OeeIdle /\ AnalystIdle

NextStore == SaveMessage \/ GetConversationHistory \/ ClearConversation \/ CacheExpire

SpecStore == InitStore /\ [][NextStore]_vars

C13_ClearConversation ==
    op.kind = "clear" =>
        LET History(b, ok) ==
                get_conversation_history(storage_backend, b.conversations, b.table,
                                         b.query_cache, op.c, <<>>, ok).ret
        IN IF storage_backend = "session"
           THEN /\ \A ok \in BOOLEAN : History(Before, ok) = <<>>
                /\ \A d \in ConversationIds \ {op.c} :
                      conversations[d] = op.before.conversations[d]
           ELSE /\ op.statements = 0
                /\ table = op.before.table
                /\ \A ok \in BOOLEAN : History(Before, ok) = History(op.before, ok)
                /\ ~query_cache[op.c].cached
                      => History(Before, TRUE) = SelectMessages(op.before.table, op.c)

\* The session backend clears a conversation that held a message while the
\* other conversation holds one.
C13_Witness ==
    /\ op.kind = "clear" /\ storage_backend = "session"
    /\ Len(op.before.conversations[op.c]) = 1
    /\ \E d \in ConversationIds \ {op.c} : Len(conversations[d]) = 1

\* C14: with a limit k >= 0 given, get_conversation_history returns exactly
\* the last min(k, n) of the n loaded messages in their order; with no limit
\* it returns the full list.
C14_LimitGivesLastMessages ==
    op.kind = "history" =>
        IF op.limit # <<>>
        THEN LET n == Len(op.loaded)
                 k == Min(op.limit[1], n)
             IN op.ret = SubSeq(op.loaded, n - k + 1, n)
        ELSE op.ret = op.loaded

----------------------------------------------------------------------------
(* get_pat_token: resolving the programmatic access token *)

\* Python's str.strip() on a text whose blanks are the tokens " ".
RECURSIVE LStrip(_)
LStrip(s) == IF s # <<>> /\ Head(s) = " " THEN LStrip(Tail(s)) ELSE s
RECURSIVE RStrip(_)
RStrip(s) ==
    IF s # <<>> /\ s[Len(s)] = " " THEN RStrip(SubSeq(s, 1, Len(s) - 1)) ELSE s
Strip(s) == RStrip(LStrip(s))

\* connection_name: None, the empty string or a name; "dev".upper() is "DEV".
ConnectionNames == {"None", "", "dev"}
Upper(name) == IF name = "dev" THEN "DEV" ELSE name
ConnectionKey(name) == "SNOWFLAKE_CONNECTIONS_" \o Upper(name) \o "_TOKEN"

\* An environment variable is unset (None), empty or set.
EnvironStates ==
    [SNOWFLAKE_TOKEN : {None, <<>>, <<"env-token">>},
     SNOWFLAKE_CONNECTIONS_DEV_TOKEN : {None, <<>>, <<"connection-token">>},
     SNOWFLAKE_CONNECTIONS_dev_TOKEN : {None, <<"lower-case-token">>},
     SNOWFLAKE_TOKEN_FILE_PATH : {None, <<>>, <<"/env/token">>}]

\* os.getenv(key)
getenv(env, key) ==
    IF key = "SNOWFLAKE_TOKEN" THEN env.SNOWFLAKE_TOKEN
    ELSE IF key = "SNOWFLAKE_CONNECTIONS_DEV_TOKEN"
    THEN env.SNOWFLAKE_CONNECTIONS_DEV_TOKEN
    ELSE IF key = "SNOWFLAKE_CONNECTIONS_dev_TOKEN"
    THEN env.SNOWFLAKE_CONNECTIONS_dev_TOKEN
    ELSE IF key = "SNOWFLAKE_TOKEN_FILE_PATH" THEN env.SNOWFLAKE_TOKEN_FILE_PATH
    ELSE None

\* What a path names: no regular file, a file that cannot be read, or a file
\* with its content.
FileStates(token) ==
    {[kind |-> "missing", content |-> <<>>], [kind |-> "unreadable", content |-> <<>>]}
    \cup [kind : {"file"}, content : {<<>>, <<" ">>, <<" ", token, " ">>}]

FileOf(fs, path) ==
    IF path = <<"/env/token">> THEN fs.env_file ELSE fs.secrets_file

\* _read_token_file
read_token_file(fs, path) ==
    IF ~Truthy(path) THEN None
    ELSE IF FileOf(fs, path).kind # "file" THEN None
    ELSE LET token == Strip(FileOf(fs, path).content)
         IN IF token = <<>> THEN None ELSE token

\* st.secrets: unreadable (every access raises) or the two keys of its
\* "snowflake" block, each absent (None), empty or set.
TokenSecretStates ==
    {[readable |-> FALSE, personal_access_token |-> None, token_file_path |-> None]}
    \cup [readable : {TRUE},
          personal_access_token : {None, <<>>, <<"secret-token">>},
          token_file_path : {None, <<>>, <<"/secrets/token">>}]

Token(v) == [kind |-> "token", value |-> v]
TokenNotFound == [kind |-> "raise", value |-> <<"RuntimeError">>]

get_pat_token_secrets_first(env, name, fs, sec) ==
    LET t1 == getenv(env, "SNOWFLAKE_TOKEN")
        t2 == IF name # "None" /\ name # "" THEN getenv(env, ConnectionKey(name))
              ELSE None
        t3 == read_token_file(fs, getenv(env, "SNOWFLAKE_TOKEN_FILE_PATH"))
        t4 == IF sec.readable THEN sec.personal_access_token ELSE None
        t5 == IF sec.readable THEN read_token_file(fs, sec.token_file_path) ELSE None
    IN IF Truthy(t1) THEN Token(t1)
       ELSE IF Truthy(t2) THEN Token(t2)
       ELSE IF Truthy(t4) THEN Token(t4)
       ELSE IF Truthy(t3) THEN Token(t3)
       ELSE IF Truthy(t5) THEN Token(t5)
       ELSE TokenNotFound

get_pat_token(env, name, fs, sec) ==
    LET t1 == getenv(env, "SNOWFLAKE_TOKEN")
        t2 == IF name # "None" /\ name # "" THEN getenv(env, ConnectionKey(name))
              ELSE None
        t3 == read_token_file(fs, getenv(env, "SNOWFLAKE_TOKEN_FILE_PATH"))
        t4 == IF sec.readable THEN sec.personal_access_token ELSE None
        t5 == IF sec.readable THEN read_token_file(fs, sec.token_file_path) ELSE None
    IN IF Truthy(t1) THEN Token(t1)
       ELSE IF Truthy(t2) THEN Token(t2)
       ELSE IF Truthy(t3) THEN Token(t3)
       ELSE IF Truthy(t4) THEN Token(t4)
       ELSE IF Truthy(t5) THEN Token(t5)
       ELSE TokenNotFound

GetPatToken ==
    /\ pat_pc = "call"
    /\ pat_result' = get_pat_token(environ, connection_name, files, snowflake_secrets)
    /\ pat_pc' = "returned"
    /\ UNCHANGED <<environ, connection_name, files, snowflake_secrets, notTokenVars>>

InitToken ==
    /\ environ \in EnvironStates
    /\ connection_name \in ConnectionNames
    /\ \E e \in FileStates("env-file-token"), s \in FileStates("secrets-file-token") :
          files = [env_file |-> e, secrets_file |-> s]
    /\ snowflake_secrets \in TokenSecretStates
    /\ pat_pc = "call"
    /\ pat_result = <<>>
    /\ CoreIdle /\ StoreIdle /\ ToolIdle /\ ParIdle /\ WidgetIdle /\ OeeIdle /\ AnalystIdle

NextToken == GetPatToken

SpecToken == InitToken /\ [][NextToken]_vars

\* The five token sources in the documented order; None where a source is
\* absent.
TokenSources ==
    << environ.SNOWFLAKE_TOKEN,
       IF connection_name = "dev" THEN environ.SNOWFLAKE_CONNECTIONS_DEV_TOKEN ELSE None,
       IF environ.SNOWFLAKE_TOKEN_FILE_PATH = <<"/env/token">>
          /\ files.env_file.kind = "file"
       THEN Strip(files.env_file.content) ELSE None,
       IF snowflake_secrets.readable
       THEN snowflake_secrets.personal_access_token ELSE None,
       IF snowflake_secrets.readable
          /\ snowflake_secrets.token_file_path = <<"/secrets/token">>
          /\ files.secrets_file.kind = "file"
       THEN Strip(files.secrets_file.content) ELSE None >>

NonEmptySources == {i \in 1..5 : Truthy(TokenSources[i])}

\* C15: get_pat_token returns the value of the lowest-numbered non-empty
\* source among SNOWFLAKE_TOKEN, the connection-scoped variable of the
\* upper-cased connection name, the trimmed file of SNOWFLAKE_TOKEN_FILE_PATH,
\* the secrets personal_access_token and the trimmed secrets token file; when
\* no source is non-empty it raises instead of returning a value.
C15_FirstNonEmptySource ==
    pat_pc = "returned" =>
        IF NonEmptySources = {}
        THEN pat_result.kind = "raise"
        ELSE /\ pat_result.kind = "token"
             /\ \E i \in NonEmptySources :
                   /\ \A j \in NonEmptySources : i <= j
                   /\ pat_result.value = TokenSources[i]

\* SNOWFLAKE_TOKEN is set but empty, the connection variable is unset, the
\* environment's token file holds only blanks, the secrets token is empty, and
\* the secrets token file holds a padded token: the trimmed token is returned.
C15_Witness ==
    /\ pat_pc = "returned"
    /\ environ.SNOWFLAKE_TOKEN = <<>>
    /\ connection_name = "dev"
    /\ environ.SNOWFLAKE_CONNECTIONS_DEV_TOKEN = None
    /\ environ.SNOWFLAKE_CONNECTIONS_dev_TOKEN = <<"lower-case-token">>
    /\ environ.SNOWFLAKE_TOKEN_FILE_PATH = <<"/env/token">>
    /\ files.env_file = [kind |-> "file", content |-> <<" ">>]
    /\ snowflake_secrets.readable
    /\ snowflake_secrets.personal_access_token = <<>>
    /\ pat_result = Token(<<"secrets-file-token">>)

----------------------------------------------------------------------------
(* IntelligenceToolExecutor.execute_tool *)

\* self.available_tools, with the text each tool's catch-all puts before the
\* error.
ToolFailurePrefix ==
    [query_asset_health |-> "Failed to query asset health: ",
     create_maintenance_work_order |-> "Failed to create work order: ",
     get_asset_failure_prediction |-> "Failed to get failure predictions: ",
     schedule_preventive_maintenance |-> "Failed to schedule maintenance: ",
     get_maintenance_history |-> "Failed to get maintenance history: ",
     calculate_downtime_risk |-> "Failed to calculate downtime risk: ",
     get_oee_metrics |-> "Failed to get OEE metrics: ",
     trigger_maintenance_alert |-> "Failed to trigger alert: "]
available_tools == DOMAIN ToolFailurePrefix

\* The tools whose body calls run_query.
QueryTools ==
    available_tools \ {"create_maintenance_work_order", "trigger_maintenance_alert"}

\* A tool name in a tool call: absent (None), the empty string, a registered
\* name or an unregistered one.
ToolNames == {None, <<>>, <<"restart_line">>} \cup {<<n>> : n \in available_tools}

\* A parameter object: absent, an empty dict, a dict with the tool's
\* parameters, or a value that is not a dict (a JSON string).
ParameterKinds == {"absent", "empty", "dict", "non_dict"}

\* The 'function' entry of a tool call: absent, not a dict, or a dict with an
\* optional name and optional arguments.
FunctionEntries ==
    {[kind |-> "absent", name |-> None, arguments |-> "absent"],
     [kind |-> "non_dict", name |-> None, arguments |-> "absent"]}
    \cup [kind : {"dict"}, name : {None, <<"restart_line">>, <<"get_oee_metrics">>},
          arguments : {"absent", "dict", "non_dict"}]

NotADict == [is_dict |-> FALSE, name |-> None, parameters |-> "absent",
             function |-> [kind |-> "absent", name |-> None, arguments |-> "absent"]]

ToolReturn(text) == [kind |-> "return", text |-> text]
ToolRaise(e) == [kind |-> "raise", text |-> e]
AttributeError == <<"object has no attribute 'get'">>
DataError == <<"data error">>

MissingName == <<"Tool call missing name">>
UnknownTool(name) == <<"Unknown tool: ">> \o name
ExecutionFailed(e) == <<"Tool execution failed: ">> \o e
ToolFailed(tool, e) == <<ToolFailurePrefix[tool]>> \o e

\* The body of a registered tool: every tool reads params with .get inside
\* its own try/except, five of them run one query, one runs a query per
\* asset id given.
ToolBody(tool, params, data) ==
    IF params = "non_dict" THEN ToolFailed(tool, AttributeError)
    ELSE IF tool = "schedule_preventive_maintenance" /\ params # "dict"
    THEN <<"No asset IDs provided for scheduling">>
    ELSE IF tool \in QueryTools /\ data = "error" THEN ToolFailed(tool, DataError)
    ELSE <<"result of ", tool>>

\* The two lookups and the dispatch inside execute_tool's try block.
\* 'a or b' evaluates b only when a is falsy.
dispatch_tool(call, data) ==
    IF ~call.is_dict THEN ToolRaise(AttributeError)
    ELSE IF ~Truthy(call.name) /\ call.function.kind = "non_dict"
    THEN ToolRaise(AttributeError)
    ELSE IF call.parameters \in {"absent", "empty"} /\ call.function.kind = "non_dict"
    THEN ToolRaise(AttributeError)
    ELSE
      LET tool_name == IF Truthy(call.name) THEN call.name ELSE call.function.name
          tool_params == IF call.parameters \in {"dict", "non_dict"}
                         THEN call.parameters
                         ELSE IF call.function.arguments = "absent" THEN "empty"
                         ELSE call.function.arguments
      IN IF ~Truthy(tool_name) THEN ToolReturn(MissingName)
         ELSE IF tool_name[1] \notin available_tools
         THEN ToolReturn(UnknownTool(tool_name))
         ELSE ToolReturn(ToolBody(tool_name[1], tool_params, data))

execute_tool_without_catch_all(call, data) == dispatch_tool(call, data)

\* execute_tool: 'except Exception as e: return error_msg'
execute_tool(call, data) ==
    LET r == dispatch_tool(call, data)
    IN IF r.kind = "raise" THEN ToolReturn(ExecutionFailed(r.text)) ELSE r

ExecuteTool ==
    /\ tool_pc = "call"
    /\ tool_result' = execute_tool(tool_call, tool_data)
    /\ tool_pc' = "returned"
    /\ UNCHANGED <<tool_call, tool_data, notToolVars>>

InitTool ==
    /\ \/ tool_call = NotADict
       \/ \E n \in ToolNames, ps \in ParameterKinds, f \in FunctionEntries :
             tool_call = [is_dict |-> TRUE, name |-> n, parameters |-> ps, function |-> f]
    /\ tool_data \in {"ok", "error"}
    /\ tool_pc = "call"
    /\ tool_result = <<>>
    /\ CoreIdle /\ StoreIdle /\ TokenIdle /\ ParIdle /\ WidgetIdle /\ OeeIdle /\ AnalystIdle

NextTool == ExecuteTool

SpecTool == InitTool /\ [][NextTool]_vars

\* The tool call is a dict whose 'function' entry, if present, is a dict.
WellFormedCall == tool_call.is_dict /\ tool_call.function.kind # "non_dict"

\* The name the tool call carries: 'name', else 'function.name'.
CallName == IF Truthy(tool_call.name) THEN tool_call.name ELSE tool_call.function.name

\* The tool call hands the tool a parameter dict, as 'parameters' or as
\* 'function.arguments'.
CallHasParameters ==
    \/ tool_call.parameters = "dict"
    \/ tool_call.parameters \in {"absent", "empty"}
          /\ tool_call.function.arguments = "dict"

----------------------------------------------------------------------------
(* run_queries_parallel: a bounded pool of workers and the calling thread *)

MaxQueries == 3
MaxWorkers == 2

Names == 1..queries

\* What results holds for a name: no key, an empty DataFrame, or the table
\* run_query gave for that name's query.
NoKey == None
EmptyTable == <<>>
TableOf(n) == <<"rows of query", n>>

Running == {n \in Names : future[n] = "running"}
Finished == {n \in Names : future[n] \in {"ok", "failed"}}
Collected == {n \in Names : results[n] # NoKey} \cup errors

CanStartUnbounded(running, workers) == TRUE

\* ThreadPoolExecutor(max_workers): a queued work item starts only while
\* fewer than max_workers threads are busy.
CanStart(running, workers) == running < workers

\* A pool thread takes the oldest queued work item.
WorkerStart ==
    /\ \E n \in Names :
          /\ future[n] = "queued"
          /\ \A k \in Names : k < n => future[k] # "queued"
          /\ CanStart(Cardinality(Running), max_workers)
          /\ future' = [future EXCEPT ![n] = "running"]
    /\ UNCHANGED <<queries, max_workers, return_empty_on_error, running_attr, results,
                   errors, par_pc, par_exc, notParVars>>

\* run_query returns a table or raises in its pool thread.
WorkerFinish ==
    /\ \E n \in Running, outcome \in {"ok", "failed"} :
          future' = [future EXCEPT ![n] = outcome]
    /\ UNCHANGED <<queries, max_workers, return_empty_on_error, running_attr, results,
                   errors, par_pc, par_exc, notParVars>>

QueryFailed(n) == <<"Query '", n, "' failed: ", "error">>

\* One iteration of 'for future in as_completed(future_to_name)' on the
\* calling thread.
Collect ==
    /\ par_pc = "collect"
    /\ \E n \in Finished \ Collected :
          IF future[n] = "ok"
          THEN /\ results' = [results EXCEPT ![n] = TableOf(n)]
               /\ UNCHANGED <<errors, par_pc, par_exc>>
          ELSE /\ errors' = errors \cup {n}
               /\ IF return_empty_on_error
                  THEN /\ results' = [results EXCEPT ![n] = EmptyTable]
                       /\ UNCHANGED <<par_pc, par_exc>>
                  ELSE /\ par_exc' = QueryFailed(n)
                       /\ par_pc' = "exit_pool"
                       /\ UNCHANGED results
    /\ UNCHANGED <<queries, max_workers, return_empty_on_error, running_attr, future,
                   notParVars>>

\* as_completed is exhausted: the with block is left normally.
LoopEnd ==
    /\ par_pc = "collect"
    /\ Collected = Names
    /\ par_pc' = "exit_pool"
    /\ UNCHANGED <<queries, max_workers, return_empty_on_error, running_attr, future,
                   results, errors, par_exc, notParVars>>

\* ThreadPoolExecutor.__exit__ is shutdown(wait=True): it returns when every
\* submitted work item has run.  Then a pending exception propagates, or the
\* code after the with block runs: 'if errors and
\* st._is_running_with_streamlit' reads the attribute only when errors is
\* non-empty, and return results.
ExitPool ==
    /\ par_pc = "exit_pool"
    /\ Finished = Names
    /\ IF par_exc # None
       THEN par_pc' = "raised" /\ UNCHANGED par_exc
       ELSE IF errors # {} /\ running_attr = "absent"
       THEN par_pc' = "raised" /\ par_exc' = <<"AttributeError">>
       ELSE par_pc' = "returned" /\ UNCHANGED par_exc
    /\ UNCHANGED <<queries, max_workers, return_empty_on_error, running_attr, future,
                   results, errors, notParVars>>

\* The state after every query was submitted: submit never blocks.
InitParallel ==
    /\ queries \in 0..MaxQueries
    /\ max_workers \in 1..MaxWorkers
    /\ return_empty_on_error \in BOOLEAN
    /\ running_attr \in {"absent", "true", "false"}
    /\ future = [n \in Names |-> "queued"]
    /\ results = [n \in Names |-> NoKey]
    /\ errors = {}
    /\ par_pc = "collect"
    /\ par_exc = None
    /\ CoreIdle /\ StoreIdle /\ TokenIdle /\ ToolIdle /\ WidgetIdle /\ OeeIdle /\ AnalystIdle

NextParallel == WorkerStart \/ WorkerFinish \/ Collect \/ LoopEnd \/ ExitPool

SpecParallel == InitParallel /\ [][NextParallel]_vars

CallEnded == par_pc \in {"returned", "raised"}
FailedQueries == {n \in Names : future[n] = "failed"}

\* C17: under the default policy the call returns, without raising, a mapping
\* whose keys are exactly the input names, a successful query mapped to its
\* own table and a failed one to an empty table; under the strict policy a
\* failed query makes the call raise an error naming that query.
C17_DefaultPolicyReturnsMapping ==
    CallEnded =>
        IF return_empty_on_error \/ FailedQueries = {}
        THEN /\ par_pc = "returned"
             /\ \A n \in Names :
                   results[n] = IF future[n] = "ok" THEN TableOf(n) ELSE EmptyTable
        ELSE /\ par_pc = "raised"
             /\ \E n \in FailedQueries : par_exc = <<"Query '", n, "' failed: ", "error">>

\* C18: at every instant at most max_workers queries are executing; results
\* holds only what the calling thread's loop put there for a finished query;
\* and the call returns or raises only after every submitted query has
\* finished.
C18_BoundedAndJoined ==
    /\ Cardinality(Running) <= max_workers
    /\ \A n \in Names : results[n] # NoKey => n \in Finished
    /\ CallEnded => Finished = Names

\* Under the strict policy the first query failed and was collected; the
\* exception waits in the pool's exit while max_workers queries are executing
\* and another is still queued.
C18_Witness ==
    /\ par_pc = "exit_pool"
    /\ par_exc # None
    /\ Cardinality(Running) = max_workers
    /\ \E n \in Names : future[n] = "queued"

----------------------------------------------------------------------------
(* build_unified_widget: one script run per interaction *)

MaxWidgetTurns == 2

Pages == {"Executive Summary", "OEE Drill-Down"}

\* get_conversation_id(page_context): memoised per context for the session.
get_conversation_id(p) == IF p = "Executive Summary" THEN "c1" ELSE "c2"

\* An entry of the session message list; timestamp is the number of prompts
\* processed when it was built.
WidgetMessage(role, content, t, backend_used, api_content) ==
    [role |-> role, content |-> content, timestamp |-> t,
     backend_used |-> backend_used, api_content |-> api_content]

InitialMessage(t) ==
    WidgetMessage("assistant", <<"Hi! I'm your intelligent manufacturing assistant.">>,
                  t, None, FALSE)

\* What client.get_complete_response can give the widget: a text (with or
\* without API content), an error, an empty text, or an exception.
RouterOutcomes ==
    {[kind |-> "answer", api_content |-> TRUE], [kind |-> "answer", api_content |-> FALSE],
     [kind |-> "error", api_content |-> FALSE], [kind |-> "empty", api_content |-> FALSE],
     [kind |-> "raise", api_content |-> FALSE]}

NoProperResponse == <<"I apologize, but I didn't receive a proper response.">>

\* "Intelligence Agent" if client.use_intelligence else "Cortex Analyst"
BackendUsed(intelligence) ==
    IF intelligence THEN <<"Intelligence Agent">> ELSE <<"Cortex Analyst">>

\* The assistant message of a turn: built in the try block, or in its
\* 'except Exception' without backend label.
AssistantMessage(o, t, intelligence) ==
    IF o.kind = "raise"
    THEN WidgetMessage("assistant", <<"Unexpected error: ", "exception">>, t, None, FALSE)
    ELSE WidgetMessage("assistant",
                       IF o.kind = "error" THEN <<"backend error">>
                       ELSE IF o.kind = "empty" THEN NoProperResponse
                       ELSE <<"answer">>,
                       t,
                       BackendUsed(intelligence),
                       o.api_content)

append_turn_assistant_first(msgs, user, assistant) == msgs \o <<assistant, user>>

\* The two appends of a turn to st.session_state[messages_key].
append_turn(msgs, user, assistant) == msgs \o <<user, assistant>>

WidgetBefore ==
    [messages |-> widget_messages, conversations |-> conversations,
     confirm_clear |-> confirm_clear]

\* 'if prompt:' to the final st.rerun().
ProcessPrompt(prompt) ==
    /\ widget_turns < MaxWidgetTurns
    /\ \E o \in RouterOutcomes :
          LET t == widget_turns + 1
              cid == get_conversation_id(page)
              user == WidgetMessage("user", prompt, t, None, FALSE)
              assistant == AssistantMessage(o, t, use_intelligence)
              user_saved == save_to_session(conversations, cid,
                                SavedMessage(next_message + 1, "user", prompt, None))
          IN /\ widget_messages' = append_turn(widget_messages, user, assistant)
             /\ IF o.kind = "raise"
                THEN /\ conversations' = user_saved
                     /\ next_message' = next_message + 1
                ELSE /\ conversations' =
                          save_to_session(user_saved, cid,
                              SavedMessage(next_message + 2, "assistant",
                                           assistant.content, assistant.backend_used))
                     /\ next_message' = next_message + 2
             /\ widget_turns' = t
             /\ op' = [kind |-> "turn", page |-> page, outcome |-> o.kind,
                       before |-> WidgetBefore]
    /\ pending_question' = None
    /\ UNCHANGED <<page, confirm_clear, notWidgetVars>>

\* What the user types into the chat input.
TypedPrompts == {<<"typed question">>, <<"another typed question">>}

\* The user submits the chat input.
ChatInput ==
    /\ pending_question = None
    /\ \E prompt \in TypedPrompts : ProcessPrompt(prompt)

\* A suggested-question button: shown while the list has at most two
\* messages; it stores the question and reruns the script.
ClickSuggested ==
    /\ pending_question = None
    /\ Len(widget_messages) <= 2
    /\ widget_turns < MaxWidgetTurns
    /\ pending_question' = <<"suggested question">>
    /\ op' = [kind |-> "suggested", page |-> page, before |-> WidgetBefore]
    /\ UNCHANGED <<page, widget_messages, confirm_clear, widget_turns, conversations,
                   next_message, notWidgetVars>>

\* The rerun after a suggested question takes it as the prompt.
PendingQuestion ==
    /\ pending_question # None
    /\ ProcessPrompt(pending_question)

clear_click_at_once(flag, msgs, convs, backend, cid, t) ==
    [confirm_clear |-> "false", messages |-> <<InitialMessage(t)>>,
     conversations |-> clear_conversation(backend, convs, cid)]

\* The clear button's branch.
clear_click(flag, msgs, convs, backend, cid, t) ==
    IF flag # "true"
    THEN [confirm_clear |-> "true", messages |-> msgs, conversations |-> convs]
    ELSE [confirm_clear |-> "false", messages |-> <<InitialMessage(t)>>,
          conversations |-> clear_conversation(backend, convs, cid)]

ClickClear ==
    /\ pending_question = None
    /\ LET c == clear_click(confirm_clear, widget_messages, conversations,
                            storage_backend, get_conversation_id(page), widget_turns)
       IN /\ confirm_clear' = c.confirm_clear
          /\ widget_messages' = c.messages
          /\ conversations' = c.conversations
    /\ op' = [kind |-> "clear_click", page |-> page, armed |-> confirm_clear = "true",
              before |-> WidgetBefore]
    /\ UNCHANGED <<page, pending_question, widget_turns, next_message, notWidgetVars>>

\* The export button: export_conversation reads the history.
ClickExport ==
    /\ pending_question = None
    /\ op' = [kind |-> "export", page |-> page, before |-> WidgetBefore]
    /\ UNCHANGED <<page, widget_messages, confirm_clear, pending_question, widget_turns,
                   conversations, next_message, notWidgetVars>>

\* The navigation menu selects another page; the widget is rendered for it.
SwitchPage ==
    /\ pending_question = None
    /\ \E p \in Pages \ {page} : page' = p
    /\ op' = [kind |-> "switch_page", page |-> page, before |-> WidgetBefore]
    /\ UNCHANGED <<widget_messages, confirm_clear, pending_question, widget_turns,
                   conversations, next_message, notWidgetVars>>

\* The state after the widget was rendered for the first time.
InitWidget ==
    /\ page \in Pages
    /\ widget_messages = <<InitialMessage(0)>>
    /\ confirm_clear = "absent"
    /\ pending_question = None
    /\ widget_turns = 0
    /\ storage_backend = "session"
    /\ conversations = [c \in ConversationIds |-> <<>>]
    /\ user_id_memo = FALSE
    /\ table = <<>>
    /\ query_cache = [c \in ConversationIds |-> NotCached]
    /\ next_message = 0
    /\ op = [kind |-> "none"]
    /\ CoreIdle /\ TokenIdle /\ ToolIdle /\ ParIdle /\ OeeIdle /\ AnalystIdle

NextWidget ==
    \/ ChatInput \/ ClickSuggested \/ PendingQuestion \/ ClickClear \/ ClickExport
    \/ SwitchPage

SpecWidget == InitWidget /\ [][NextWidget]_vars

IsPrefix(s, u) == Len(s) <= Len(u) /\ SubSeq(u, 1, Len(s)) = s

ClearConfirmed == op.kind = "clear_click" /\ op.armed

\* C19: except when a clear was confirmed, a script run only appends to the
\* session message list; a turn appends its user message and then its
\* assistant message; so the list is always the welcome message followed by
\* user, assistant pairs in turn order.
C19_AppendOnlyAlternating ==
    LET n == Len(widget_messages) IN
    /\ n % 2 = 1
    /\ widget_messages[1].role = "assistant"
    /\ widget_messages[1].content = InitialMessage(0).content
    /\ \A j \in 1..((n - 1) \div 2) :
          /\ widget_messages[2 * j].role = "user"
          /\ widget_messages[2 * j + 1].role = "assistant"
          /\ widget_messages[2 * j].timestamp = widget_messages[2 * j + 1].timestamp
          /\ widget_messages[2 * j - 1].timestamp < widget_messages[2 * j].timestamp
    /\ (op.kind # "none" /\ ~ClearConfirmed)
          => IsPrefix(op.before.messages, widget_messages)
    /\ op.kind = "turn" => n = Len(op.before.messages) + 2

\* Two turns since the last clear, the first ended in the except branch.
C19_Witness ==
    /\ op.kind = "turn"
    /\ Len(widget_messages) = 5
    /\ widget_messages[3].backend_used = None
    /\ widget_messages[5].backend_used # None
    /\ widget_turns = 2

\* C20: a clear click with the confirm flag unarmed only arms the flag and
\* changes neither the session message list nor the persisted conversations;
\* a clear click with the flag armed resets the list to the single welcome
\* message, clears the persisted conversation of the current conversation
\* id, and disarms the flag.
C20_TwoClickClear ==
    op.kind = "clear_click" =>
        IF ~op.armed
        THEN /\ op.before.confirm_clear # "true"
             /\ confirm_clear = "true"
             /\ widget_messages = op.before.messages
             /\ conversations = op.before.conversations
        ELSE /\ Len(widget_messages) = 1
             /\ widget_messages[1].role = "assistant"
             /\ widget_messages[1].content = InitialMessage(0).content
             /\ conversations[get_conversation_id(op.page)] = <<>>
             /\ \A c \in ConversationIds \ {get_conversation_id(op.page)} :
                   conversations[c] = op.before.conversations[c]
             /\ confirm_clear = "false"

\* The confirming click after a turn whose messages were persisted.
C20_Witness ==
    /\ op.kind = "clear_click" /\ op.armed
    /\ Len(op.before.messages) >= 3
    /\ op.before.conversations[get_conversation_id(op.page)] # <<>>
    /\ Len(widget_messages) = 1

\* The turn's persisted conversation and the last message shown.
TurnSaved == conversations[get_conversation_id(op.page)]
TurnShown == widget_messages[Len(widget_messages)]

\* C21: whenever a turn appended an assistant message to the session list
\* (answer, backend error, empty-response text or unexpected-error text), the
\* persisted conversation of the current id gained the turn's user message
\* and then that assistant message with its backend label.
C21_TurnPersistsBothMessages ==
    op.kind = "turn" =>
        LET before == op.before.conversations[get_conversation_id(op.page)]
            n == Len(TurnSaved)
        IN /\ n = Len(before) + 2
           /\ SubSeq(TurnSaved, 1, n - 2) = before
           /\ TurnSaved[n - 1].role = "user"
           /\ TurnSaved[n].role = "assistant"
           /\ TurnSaved[n].content = TurnShown.content
           /\ TurnSaved[n].backend_used = TurnShown.backend_used

\* The turns of C21 that do persist both messages: every outcome but the
\* exception path.
C21_SavedUnlessRaised ==
    (op.kind = "turn" /\ op.outcome # "raise") =>
        /\ Len(TurnSaved) = Len(op.before.conversations[get_conversation_id(op.page)]) + 2
        /\ TurnSaved[Len(TurnSaved)].content = TurnShown.content

----------------------------------------------------------------------------
(* calculate_oee *)

MaxRows == 3

\* Values of one cell of the production table.
Quantities == {0, 1}

ProductionRows ==
    [PLANNED_RUNTIME_HOURS : Quantities, ACTUAL_RUNTIME_HOURS : Quantities,
     UNITS_PRODUCED : Quantities, UNITS_SCRAPPED : Quantities]

\* df_prod[column].sum(); the sum of an empty column is 0.
RECURSIVE ColumnSum(_, _)
ColumnSum(df, column) ==
    IF df = <<>> THEN 0 ELSE df[1][column] + ColumnSum(Tail(df), column)

\* The scores are kept as exact fractions with a positive denominator.
Fraction(n, d) == [num |-> n, den |-> d]
Times(x, y) == Fraction(x.num * y.num, x.den * y.den)

calculate_oee_unguarded_runtime(df) ==
    LET total_planned == ColumnSum(df, "PLANNED_RUNTIME_HOURS")
        total_actual == ColumnSum(df, "ACTUAL_RUNTIME_HOURS")
        total_produced == ColumnSum(df, "UNITS_PRODUCED")
        total_scrapped == ColumnSum(df, "UNITS_SCRAPPED")
        availability == IF total_planned = 0 THEN Fraction(total_actual, 1)
                        ELSE Fraction(total_actual, total_planned)
        quality == IF total_produced = 0 THEN Fraction(0, 1)
                   ELSE Fraction(total_produced - total_scrapped, total_produced)
        performance == Fraction(95, 100)
    IN [oee |-> Times(Times(availability, performance), quality),
        availability |-> availability, performance |-> performance,
        quality |-> quality]

calculate_oee(df) ==
    LET total_planned == ColumnSum(df, "PLANNED_RUNTIME_HOURS")
        total_actual == ColumnSum(df, "ACTUAL_RUNTIME_HOURS")
        availability == IF total_planned = 0 THEN Fraction(0, 1)
                        ELSE Fraction(total_actual, total_planned)
        total_produced == ColumnSum(df, "UNITS_PRODUCED")
        total_scrapped == ColumnSum(df, "UNITS_SCRAPPED")
        quality == IF total_produced = 0 THEN Fraction(0, 1)
                   ELSE Fraction(total_produced - total_scrapped, total_produced)
        performance == Fraction(95, 100)
    IN [oee |-> Times(Times(availability, performance), quality),
        availability |-> availability, performance |-> performance,
        quality |-> quality]

CalculateOee ==
    /\ oee_pc = "call"
    /\ oee_result' = calculate_oee(df_prod)
    /\ oee_pc' = "returned"
    /\ UNCHANGED <<df_prod, notOeeVars>>

InitOee ==
    /\ \E n \in 0..MaxRows : df_prod \in [1..n -> ProductionRows]
    /\ oee_pc = "call"
    /\ oee_result = <<>>
    /\ CoreIdle /\ StoreIdle /\ TokenIdle /\ ToolIdle /\ ParIdle /\ WidgetIdle /\ AnalystIdle

NextOee == CalculateOee

SpecOee == InitOee /\ [][NextOee]_vars

\* x = n / d, for d # 0
Equals(x, n, d) == x.num * d = n * x.den

\* C22: with a planned-runtime sum of 0 availability is 0, with a
\* units-produced sum of 0 quality is 0, and OEE is 0 in both cases;
\* otherwise availability is sum(actual)/sum(planned) and quality is
\* (sum(produced) - sum(scrapped))/sum(produced); performance is 0.95 and
\* OEE is the product of the three.
C22_OeeZeroDenominatorGuards ==
    oee_pc = "returned" =>
        LET planned == ColumnSum(df_prod, "PLANNED_RUNTIME_HOURS")
            actual == ColumnSum(df_prod, "ACTUAL_RUNTIME_HOURS")
            produced == ColumnSum(df_prod, "UNITS_PRODUCED")
            scrapped == ColumnSum(df_prod, "UNITS_SCRAPPED")
            r == oee_result
        IN /\ planned = 0 => Equals(r.availability, 0, 1)
           /\ produced = 0 => Equals(r.quality, 0, 1)
           /\ (planned = 0 \/ produced = 0) => Equals(r.oee, 0, 1)
           /\ planned # 0 => Equals(r.availability, actual, planned)
           /\ produced # 0 => Equals(r.quality, produced - scrapped, produced)
           /\ Equals(r.performance, 95, 100)
           /\ Equals(r.oee, r.availability.num * 95 * r.quality.num,
                     r.availability.den * 100 * r.quality.den)

\* No planned runtime although the lines ran and produced units.
C22_Witness ==
    /\ oee_pc = "returned"
    /\ Len(df_prod) = 2
    /\ ColumnSum(df_prod, "PLANNED_RUNTIME_HOURS") = 0
    /\ ColumnSum(df_prod, "ACTUAL_RUNTIME_HOURS") = 2
    /\ ColumnSum(df_prod, "UNITS_PRODUCED") = 2
    /\ ColumnSum(df_prod, "UNITS_SCRAPPED") = 1
    /\ oee_result.oee.num = 0

----------------------------------------------------------------------------
(* SnowflakeCortexAnalyst: the request built from the chat history, and the
   complete response *)

MaxHistory == 3

\* The kinds of chat message the widget keeps: a user message, an assistant
\* message with the API content of the reply, and one without.
HistoryKinds ==
    {[role |-> "user", api_content |-> FALSE], [role |-> "assistant", api_content |-> TRUE],
     [role |-> "assistant", api_content |-> FALSE]}

\* get_analyst_response, the loop over 'messages': user messages and
\* assistant messages with API content are converted, all others are dropped.
RECURSIVE ConvertMessages(_)
ConvertMessages(msgs) ==
    IF msgs = <<>> THEN <<>>
    ELSE (IF Head(msgs).role = "user"
          THEN <<[role |-> "user", content |-> Head(msgs).content]>>
          ELSE IF Head(msgs).role = "assistant" /\ Head(msgs).api_content
          THEN <<[role |-> "analyst", content |-> Head(msgs).content]>>
          ELSE <<>>)
         \o ConvertMessages(Tail(msgs))

RECURSIVE RolesFold(_, _)
RolesFold(st, msgs) ==
    IF msgs = <<>> THEN st ELSE RolesFold(RolesStep(st, Head(msgs)), Tail(msgs))

\* _ensure_alternating_roles as a function of its argument.
ensure_alternating_roles(msgs) ==
    IF msgs = <<>> THEN msgs
    ELSE DropLeadingNonUser(RolesFold(LoopState(<<>>, "None"), msgs).filtered)

\* request_body["messages"]
AnalystRequestMessages(msgs) == ensure_alternating_roles(ConvertMessages(msgs))

GetAnalystResponse ==
    /\ analyst_pc = "call"
    /\ analyst_request' = AnalystRequestMessages(analyst_messages)
    /\ analyst_pc' = "requested"
    /\ UNCHANGED <<analyst_messages, analyst_reply, analyst_result, notAnalystVars>>

\* The reply of the endpoint, the SQL execution and the return.
AnalystCompleteResponse ==
    /\ analyst_pc = "requested"
    /\ \E o \in CortexOutcomes :
          /\ analyst_reply' = o
          /\ analyst_result' = CortexCompleteResponse(o)
    /\ analyst_pc' = "returned"
    /\ UNCHANGED <<analyst_messages, analyst_request, notAnalystVars>>

InitAnalyst ==
    /\ \E n \in 0..MaxHistory :
          \E f \in [1..n -> HistoryKinds] :
             analyst_messages =
                 [k \in 1..n |-> [role |-> f[k].role, content |-> k,
                                  api_content |-> f[k].api_content]]
    /\ analyst_request = <<>>
    /\ analyst_reply = <<>>
    /\ analyst_pc = "call"
    /\ analyst_result = <<>>
    /\ CoreIdle /\ StoreIdle /\ TokenIdle /\ ToolIdle /\ ParIdle /\ WidgetIdle /\ OeeIdle

NextAnalyst == GetAnalystResponse \/ AnalystCompleteResponse

SpecAnalyst == InitAnalyst /\ [][NextAnalyst]_vars

\* The positions of the 'sql' items of a content list.
SqlPositions(content) == {j \in 1..Len(content) : content[j][1] = "sql"}
LastSql(content) ==
    content[CHOOSE j \in SqlPositions(content) :
                \A i \in SqlPositions(content) : i <= j][2]

----------------------------------------------------------------------------
(* manage_context_window and max_messages *)

\* C24: whenever pruning is triggered (max_messages >= 1), the returned list
\* has at most max_messages elements.
C24_MaxMessagesHonoured ==
    PruningTriggered => Len(w_result) <= max_messages

\* What the pruned list holds for 2 <= max_messages <= 16: the first
\* message, the summary and the last max_messages - 1 messages.
C24_OneMoreThanMaxMessages ==
    (PruningTriggered /\ max_messages >= 2 /\ max_messages <= KeepLastCap + 1)
        => Len(w_result) = max_messages + 1

----------------------------------------------------------------------------
(* The backend label of a turn *)

\* The backend whose reply the router returned for the turn.
CortexAnswered == pc = "done" /\ CortexCalled /\ cortexRet.kind = "return"
IntelligenceReturned ==
    pc = "done" /\ \E k \in 1..Len(events) : events[k] = "intelligence_returned"

\* C25: the backend-used label the widget stores with the assistant message
\* of a turn is 'Cortex Analyst' whenever the Cortex Analyst client gave the
\* turn's answer, fallback turns included, and 'Intelligence Agent' only
\* when the Intelligence Agent answered.
C25_LabelNamesAnsweringBackend ==
    (CortexAnswered \/ IntelligenceReturned) =>
        BackendUsed(use_intelligence) =
            IF CortexAnswered THEN <<"Cortex Analyst">> ELSE <<"Intelligence Agent">>

\* Without a fallback in the turn the label names the backend that answered.
C25_LabelRightWithoutFallback ==
    ((CortexAnswered \/ IntelligenceReturned) /\ ~intelRaised) =>
        BackendUsed(use_intelligence) =
            IF CortexAnswered THEN <<"Cortex Analyst">> ELSE <<"Intelligence Agent">>

----------------------------------------------------------------------------
(* What SnowflakeIntelligenceAgent.get_complete_response hands the router *)

\* get_agent_response has returned in the current turn.
AgentResponded == agentRet # NoAgentReturn

\* C26: for every response get_agent_response can hand it,
\* get_complete_response returns a pair (text, error); so after a
\* successful exchange the router neither reports a failure of the
\* Intelligence call nor falls back to Cortex Analyst.
C26_AgentAlwaysReturnsPair ==
    AgentResponded =>
        /\ AgentCompleteResponse(agentRet).kind = "pair"
        /\ ~Truthy(agentRet.error) => (~intelRaised /\ ~CortexCalled)

\* For the other response shapes a pair is returned.
C26_PairForOtherShapes ==
    (AgentResponded
     /\ agentRet.response.shape \notin {"message_no_content", "message_other"}) =>
        /\ AgentCompleteResponse(agentRet).kind = "pair"
        /\ ~Truthy(agentRet.error) => (~intelRaised /\ ~CortexCalled)

----------------------------------------------------------------------------
(* The request the Cortex Analyst client builds in a turn of the widget *)

\* The list the widget hands to client.get_complete_response in the turn
\* that just ended: the session list up to the turn's user message.
TurnApiMessages == SubSeq(widget_messages, 1, Len(widget_messages) - 1)
TurnPrompt == widget_messages[Len(widget_messages) - 1]

\* C27: in every turn of the widget, the message list of the Cortex Analyst
\* request (conversion, then role-alternation filtering) is non-empty, starts
\* with a user message, strictly alternates user and analyst, and ends with
\* the prompt just entered, whatever error or fallback messages without API
\* content the history holds.
C27_RequestEndsWithPrompt ==
    op.kind = "turn" =>
        LET request == AnalystRequestMessages(TurnApiMessages)
            n == Len(request)
        IN /\ n >= 1
           /\ request[1].role = "user"
           /\ \A k \in 1..n : request[k].role = (IF k % 2 = 1 THEN "user" ELSE "analyst")
           /\ request[n].role = "user"
           /\ request[n].content = TurnPrompt.content
           /\ TurnPrompt.role = "user"

\* The first turn's assistant message has no API content, so the two prompts
\* meet in the converted list and only the second, different one is sent.
C27_Witness ==
    /\ op.kind = "turn"
    /\ Len(widget_messages) = 5
    /\ ~widget_messages[3].api_content
    /\ widget_messages[2].content # widget_messages[4].content
    /\ Len(AnalystRequestMessages(TurnApiMessages)) = 1

----------------------------------------------------------------------------
(* The confirm flag of the clear control and other interactions *)

\* C28: any interaction other than a clear click (sending a message,
\* clicking a suggested question, exporting, switching page) leaves the
\* confirm flag disarmed, so the conversation is cleared only by two
\* consecutive clear clicks.
C28_OtherInteractionDisarms ==
    op.kind \in {"turn", "suggested", "export", "switch_page"} => confirm_clear # "true"

\* The same as a property of steps: a clear click resets the message list
\* only when the step before it was the arming click.
C28_ClearedOnlyByConsecutiveClicks ==
    [][(op'.kind = "clear_click" /\ op'.armed)
          => (op.kind = "clear_click" /\ ~op.armed)]_vars

----------------------------------------------------------------------------
(* The message list and the page the widget is rendered for *)

\* messages_key: built from semantic_model_path alone, which app.py never
\* passes, so it is the same key on every page.
messages_key(p) == "unified_messages_HYPERFORGE_GOLD_SEMANTIC_VIEW_STAGE_HYPERFORGE_SV_yaml"

\* st.session_state[key] for a key that messages_key gives.
MessagesShown(p, list) ==
    IF messages_key(p) = messages_key(page) THEN list ELSE <<InitialMessage(0)>>

\* role and content of the messages of a list
RolesAndContents(ms) ==
    [k \in 1..Len(ms) |-> [role |-> ms[k].role, content |-> ms[k].content]]

\* C29: a turn taken, or a clear confirmed, on one page does not change the
\* message list the widget shows for another page, and for each page the
\* persisted conversation of the page's conversation id holds exactly the
\* user and assistant turns shown for that page.
C29_MessageListScopedToPage ==
    /\ (op.kind = "turn" \/ ClearConfirmed) =>
          \A q \in Pages \ {op.page} :
             MessagesShown(q, widget_messages) = MessagesShown(q, op.before.messages)
    /\ \A p \in Pages :
          RolesAndContents(conversations[get_conversation_id(p)])
             = RolesAndContents(Tail(MessagesShown(p, widget_messages)))

----------------------------------------------------------------------------
(* The warehouse backend: what readers see of the saved messages *)

\* The ids of the messages save_message has stored for conversation c, in the
\* table or, after a failed INSERT, in session storage.
SavedIds(c) ==
    {SelectMessages(table, c)[k].message_id : k \in 1..Len(SelectMessages(table, c))}
    \cup {conversations[c][k].message_id : k \in 1..Len(conversations[c])}

\* The SELECT of the last get_conversation_history, if one was sent, succeeded.
SelectSucceeded == op.statements = 1 => op.loaded = SelectMessages(table, op.c)

\* C30: under the warehouse backend a get_conversation_history(c) without
\* limit contains every message saved for c before it, whether its INSERT
\* succeeded (and whatever the query cache holds) or failed and the message
\* went to session storage.
C30_SavedMessageVisibleToReaders ==
    (/\ storage_backend = "snowflake"
     /\ op.kind = "history"
     /\ op.limit = <<>>
     /\ SelectSucceeded)
        => \A id \in SavedIds(op.c) :
              \E k \in 1..Len(op.ret) : op.ret[k].message_id = id

\* The session backend does show every saved message.
C30_SessionBackendShowsAll ==
    (storage_backend = "session" /\ op.kind = "history" /\ op.limit = <<>>)
        => \A id \in SavedIds(op.c) :
              \E k \in 1..Len(op.ret) : op.ret[k].message_id = id

\* With the SELECT text not cached and every INSERT successful, so does the
\* warehouse backend.
C30_VisibleWithoutCacheAndFallback ==
    (/\ storage_backend = "snowflake"
     /\ op.kind = "history"
     /\ op.limit = <<>>
     /\ SelectSucceeded
     /\ op.statements = 1
     /\ conversations[op.c] = <<>>)
        => \A id \in SavedIds(op.c) :
              \E k \in 1..Len(op.ret) : op.ret[k].message_id = id

====
